---- MODULE Spec2Model ----
(***************************************************************************)
(* Model of the papersmap web application: one browser session working     *)
(* against the hosted data store.  The store holds the tables org_members, *)
(* project_tasks and task_updates; the session holds the React state of    *)
(* the page that is mounted (members, admin, issues, dashboard, history,   *)
(* projects, plans) and of the sidebar.  The due-date classification of    *)
(* the issues page and of the dashboard is computed from a clock and a     *)
(* task list.  Every handler is one action; a handler that awaits a write  *)
(* and then reloads is split at the await where the source lets a second   *)
(* call start before the reload has arrived.                               *)
(***************************************************************************)
EXTENDS Integers, FiniteSets, Sequences, TLC

(* ------------------------------------------------------------------ *)
(* Universe                                                           *)
(* ------------------------------------------------------------------ *)
Users == {"u1", "u2", "u3"}

OrgRole == {"admin", "manager", "member"}

NoUser == "none"

MaxInflight == 2

(* error strings of the members page and of the admin page *)
ErrNone == "null"

ErrSoleAdminDemote == "cannot demote the only admin"

ErrSoleAdminDeactivate == "cannot deactivate the only admin"

ErrSelfDeactivate == "cannot deactivate self"

ErrUpdateRole == "update role failed"

ErrUpdateActive == "update active failed"

ErrAdminForbidden == "admin role forbidden on this page"

ErrNoMembership == "no org_members row"

(* error strings of the issues page, the dashboard and the projects page *)
ErrReplyNotAssigned == "you can only reply to tasks assigned to you"

ErrPostFailed == "post reply failed"

ErrStatusNoRow == "status update matched no task"

ErrEditNotOwn == "you can only edit your own replies"

ErrEditNoRow == "edit matched no reply"

ErrEditFailed == "edit reply failed"

ErrDeleteNotOwn == "you can only delete your own replies"

ErrDeleteNoRow == "delete matched no reply"

ErrDeleteFailed == "delete reply failed"

ErrTaskNoRow == "task update matched no task"

ErrTaskFailed == "task update failed"

ErrQuickFailed == "quick status update failed"

ErrQuickNoRow == "quick status update matched no task"

\* the draft texts a user types, and what trim() leaves of them
Drafts == {"", " ", " b"}

\* the next-status select of a reply: none chosen, or a status
StatusDrafts == {"", "done"}

MaxReplies == 1

TaskIds == {"t1", "t2"}

NoTask == "none"

TaskStatus == {"todo", "in_progress", "done"}

\* expected_finish_at: null or an instant
Instants == {"null", "d1"}

NoCall == [fn |-> "none", target |-> NoUser, arg |-> "none"]

(* daily logs and their approvals *)
LogStatus == {"draft", "pending", "approved", "rejected"}

NoLog == "none"

MaxItems == 1

\* the days of the selected week
Dates == {"d1", "d2"}

NoDate == "none"

\* new Date(): the day the page is open on
Today == "d1"

\* daily_logs.id: one log per user and log_date
NoLogId == [user_id |-> NoUser, log_date |-> NoDate]

NoDailyLog == [user_id |-> NoUser, log_date |-> NoDate, status |-> NoLog]

NoApproval == [target_id |-> NoLogId, status |-> "none",
               requester_user_id |-> NoUser, approver_user_id |-> NoUser]

ErrPlansInit == "plans init failed"

ErrSaveFailed == "save daily log failed"

ErrSubmitFailed == "submit for approval failed"

ErrApprovalFailed == "approval failed"

\* projectCache[id] / projectMap[id]: undefined, not fetched yet
NoProject == "undefined"

(* organizations a user may belong to *)
Orgs == {"o1", "o2"}

(* instants are counted in clock units from an epoch; a day has DayLen units *)
DayLen == 4

\* expected_finish_at: null
NoInstant == -1

NoRow == [pc |-> "idle", task |-> 0, dueToday |-> FALSE, overdue |-> FALSE,
          nowDueToday |-> NoInstant, nowOverdue |-> NoInstant]

NoKpi == [open |-> 0, completed |-> 0, overdue |-> 0, dueToday |-> 0,
          dueThisWeek |-> 0]

NoLists == [overdue |-> << >>, dueToday |-> << >>, dueThisWeek |-> << >>]

VARIABLES
  org_members,     \* store: user -> [role, is_active] of the organization
  userId,          \* the signed-in user of the session
  page,            \* the mounted page
  orgId,           \* page state: the organization picked at load, or "none"
  role,            \* page state: myRole / role / orgRole / isAdmin source
  members,         \* page state: the member list last loaded
  isAdmin,         \* admin page state: the signed-in user passed the admin check
  busyUserId,      \* members page: row being updated
  inflight,        \* members page: handlers awaiting their reload
  error,           \* page state: the error shown
  project_tasks,   \* store: task id -> [assignee_user_id, status, expected_finish_at]
  task_updates,    \* store: the progress replies
  replySeq,        \* store: number of replies inserted so far (next id)
  tasks,           \* page state: the tasks last loaded
  expandedTaskId,  \* issues page: the expanded task, or "none"
  updatesByTask,   \* issues page: task id -> the replies last loaded
  scope,           \* history page: the scope filter, "all" or "me"
  lastCall,        \* the handler called last, with its arguments
  writes,          \* the tables the last handler call sent a write to
  daily_logs,      \* store: owner -> day -> [status, items] of the daily log
  approvals,       \* store: owner -> day -> the approval row of that log
  dailyLog,        \* plans page: the daily log last loaded
  dailyItems,      \* plans page: the items last loaded
  approval,        \* plans page: the approval last loaded
  isEditing,       \* plans page: the edit form is open
  editedItems,     \* plans page: the items of the edit form
  selectedDate,    \* plans page: the day shown
  now,             \* the clock: what new Date() returns
  tzOffset,        \* the offset of the browser's time zone from UTC
  taskList,        \* the task rows a page renders, in load order
  todayUTC,        \* dashboard: the memoized start of the UTC day
  row,             \* issues / projects page: the rendering of one task row
  kpi,             \* dashboard: the memoized counters
  actionLists,     \* dashboard: the memoized bounded lists
  memberships,     \* store: the org_members rows of the signed-in user
  sidebarRole,     \* sidebar: the role state
  projectCache,    \* issues page: the project rows fetched for the list
  projectMap,      \* dashboard: the project names fetched for the list
  initUser,        \* the user of a page init still awaiting its responses
  cancelled,       \* the cancelled flag of that init's effect
  membersOf,       \* members page: the organization of the list in state
  loadsInFlight    \* members page: the loadMembers calls not yet answered

memberVars == <<members, isAdmin, busyUserId, inflight>>

taskVars == <<project_tasks, task_updates, replySeq, tasks, expandedTaskId,
              updatesByTask, scope>>

planVars == <<daily_logs, approvals, dailyLog, dailyItems, approval, isEditing,
              editedItems, selectedDate>>

dueVars == <<now, tzOffset, taskList, todayUTC, row, kpi, actionLists>>

sidebarVars == <<memberships, sidebarRole>>

loadVars == <<projectCache, projectMap, initUser, cancelled, membersOf,
              loadsInFlight>>

\* the state of the plans page, of the due-date classification and of the
\* sidebar, which the member and task pages leave alone
otherPageVars == <<planVars, dueVars, sidebarVars, loadVars>>

vars == <<org_members, userId, page, orgId, role, error, lastCall, writes,
          memberVars, taskVars, otherPageVars>>

(* ------------------------------------------------------------------ *)
(* Members page                                                       *)
(* ------------------------------------------------------------------ *)
MemberRows == [role : OrgRole, is_active : BOOLEAN]

NoTasks == [t \in {} |-> [assignee_user_id |-> NoUser, status |-> "todo",
                           expected_finish_at |-> "null"]]

EmptyList == [u \in {} |-> [role |-> "member", is_active |-> FALSE]]

\* role === 'admin' || role === 'manager'
isSupervisorOf(r) == r = "admin" \/ r = "manager"

\* the isSupervisor constant of the current render
isSupervisor == isSupervisorOf(role)

\* useState<Role>('member'): the role of a page's first render
initialRole == "member"

\* members.filter((m) => m.is_active && m.role === "admin").length
activeAdminCount(list) ==
  Cardinality({u \in DOMAIN list : list[u].is_active /\ list[u].role = "admin"})

\* loadMembers: the rows of org_members of the organization
loadMembers == org_members

\* loadMemberships + the mount effect: the session of user u opens the page
MembersPageMount(u) ==
  /\ UNCHANGED <<taskVars, otherPageVars>>
  /\ userId' = u
  /\ page' = "members"
  /\ busyUserId' = NoUser
  /\ inflight' = 0
  /\ lastCall' = [fn |-> "loadMemberships", target |-> u, arg |-> "none"]
  /\ writes' = {}
  /\ IF ~org_members[u].is_active
       THEN /\ orgId' = "none"
            /\ role' = "member"
            /\ members' = EmptyList
            /\ error' = ErrNoMembership
       ELSE /\ orgId' = "org"
            /\ role' = org_members[u].role
            /\ error' = ErrNone
            /\ members' = IF org_members[u].role \in {"admin", "manager"}
                            THEN loadMembers ELSE EmptyList
  /\ isAdmin' = FALSE
  /\ UNCHANGED org_members

\* refresh(): the "reload" button
MembersRefresh ==
  /\ UNCHANGED <<taskVars, otherPageVars>>
  /\ page = "members"
  /\ orgId # "none"
  /\ members' = loadMembers
  /\ error' = ErrNone
  /\ lastCall' = [fn |-> "refresh", target |-> NoUser, arg |-> "none"]
  /\ writes' = {}
  /\ UNCHANGED <<org_members, userId, page, orgId, role, isAdmin, busyUserId, inflight>>

\* the guard of changeRole that protects the only admin
changeRoleRejects(targetUserId, nextRole) ==
  /\ targetUserId \in DOMAIN members
  /\ members[targetUserId].role = "admin"
  /\ members[targetUserId].is_active
  /\ activeAdminCount(members) <= 1
  /\ nextRole # "admin"

changeRole(targetUserId, nextRole) ==
  /\ UNCHANGED <<taskVars, otherPageVars>>
  /\ page = "members"
  /\ orgId # "none"
  /\ isSupervisor
  /\ lastCall' = [fn |-> "changeRole", target |-> targetUserId, arg |-> nextRole]
  /\ IF changeRoleRejects(targetUserId, nextRole)
       THEN /\ error' = ErrSoleAdminDemote
            /\ writes' = {}
            /\ UNCHANGED <<org_members, busyUserId, inflight>>
       ELSE /\ inflight < MaxInflight
            /\ writes' = {"org_members"}
            /\ \E ok \in BOOLEAN :
                 IF ok
                   THEN /\ org_members' = [org_members EXCEPT ![targetUserId].role = nextRole]
                        /\ busyUserId' = targetUserId
                        /\ error' = ErrNone
                        /\ inflight' = inflight + 1
                   ELSE /\ error' = ErrUpdateRole
                        /\ busyUserId' = NoUser
                        /\ UNCHANGED <<org_members, inflight>>
  /\ UNCHANGED <<userId, page, orgId, role, members, isAdmin>>

toggleActiveSelf(targetUserId) == targetUserId = userId

\* the guard of toggleActive that protects the only admin
toggleActiveRejects(targetUserId) ==
  /\ members[targetUserId].role = "admin"
  /\ members[targetUserId].is_active
  /\ activeAdminCount(members) <= 1

toggleActive(targetUserId) ==
  /\ UNCHANGED <<taskVars, otherPageVars>>
  /\ page = "members"
  /\ orgId # "none"
  /\ isSupervisor
  /\ lastCall' = [fn |-> "toggleActive", target |-> targetUserId, arg |-> "none"]
  /\ IF toggleActiveSelf(targetUserId)
       THEN /\ error' = ErrSelfDeactivate
            /\ writes' = {}
            /\ UNCHANGED <<org_members, busyUserId, inflight>>
       ELSE IF targetUserId \notin DOMAIN members
         THEN /\ writes' = {}
              /\ UNCHANGED <<org_members, busyUserId, inflight, error>>
         ELSE IF toggleActiveRejects(targetUserId)
           THEN /\ error' = ErrSoleAdminDeactivate
                /\ writes' = {}
                /\ UNCHANGED <<org_members, busyUserId, inflight>>
           ELSE /\ inflight < MaxInflight
                /\ writes' = {"org_members"}
                /\ \E ok \in BOOLEAN :
                     IF ok
                       THEN /\ org_members' = [org_members EXCEPT
                                 ![targetUserId].is_active = ~members[targetUserId].is_active]
                            /\ busyUserId' = targetUserId
                            /\ error' = ErrNone
                            /\ inflight' = inflight + 1
                       ELSE /\ error' = ErrUpdateActive
                            /\ busyUserId' = NoUser
                            /\ UNCHANGED <<org_members, inflight>>
  /\ UNCHANGED <<userId, page, orgId, role, members, isAdmin>>

\* the continuation of changeRole / toggleActive after the awaited update:
\* await refresh(orgId); finally setBusyUserId(null)
MembersReloaded ==
  /\ UNCHANGED <<taskVars, otherPageVars>>
  /\ page = "members"
  /\ inflight > 0
  /\ inflight' = inflight - 1
  /\ members' = loadMembers
  /\ error' = ErrNone
  /\ busyUserId' = NoUser
  /\ UNCHANGED <<org_members, userId, page, orgId, role, isAdmin, lastCall, writes>>

(* ------------------------------------------------------------------ *)
(* Admin page                                                         *)
(* ------------------------------------------------------------------ *)
\* checkAdminAndLoad run by user u against the store contents om: reads the
\* user's active membership, leaves the page (router.replace) unless its
\* role is admin, and otherwise loads v_org_members
checkAdminAndLoad(u, om) ==
  /\ error' = ErrNone
  /\ IF om[u].is_active /\ om[u].role = "admin"
       THEN /\ isAdmin' = TRUE
            /\ page' = "admin"
            /\ members' = om
       ELSE /\ isAdmin' = FALSE
            /\ page' = "none"
            /\ members' = EmptyList

\* the mount effect of the admin page, for the session of user u
AdminPageMount(u) ==
  /\ UNCHANGED <<taskVars, otherPageVars>>
  /\ userId' = u
  /\ checkAdminAndLoad(u, org_members)
  /\ orgId' = "none"
  /\ role' = "member"
  /\ busyUserId' = NoUser
  /\ inflight' = 0
  /\ lastCall' = [fn |-> "checkAdminAndLoad", target |-> u, arg |-> "none"]
  /\ writes' = {}
  /\ UNCHANGED org_members

\* setRole(user_id, role): rpc admin_set_member_role, then checkAdminAndLoad
setRole(user_id, newRole) ==
  /\ UNCHANGED <<taskVars, otherPageVars>>
  /\ page = "admin"
  /\ isAdmin
  /\ lastCall' = [fn |-> "setRole", target |-> user_id, arg |-> newRole]
  /\ IF newRole = "admin"
       THEN /\ error' = ErrAdminForbidden
            /\ writes' = {}
            /\ UNCHANGED <<org_members, page, members, isAdmin>>
       ELSE /\ writes' = {"org_members"}
            /\ \E ok \in BOOLEAN :
                 IF ok
                   THEN /\ org_members' = [org_members EXCEPT ![user_id].role = newRole]
                        /\ checkAdminAndLoad(userId, org_members')
                   ELSE /\ error' = ErrUpdateRole
                        /\ UNCHANGED <<org_members, page, members, isAdmin>>
  /\ UNCHANGED <<userId, orgId, role, busyUserId, inflight>>

\* setActive(user_id, active): rpc admin_set_member_active, then
\* checkAdminAndLoad
setActive(user_id, active) ==
  /\ UNCHANGED <<taskVars, otherPageVars>>
  /\ page = "admin"
  /\ isAdmin
  /\ lastCall' = [fn |-> "setActive", target |-> user_id,
                  arg |-> IF active THEN "activate" ELSE "deactivate"]
  /\ writes' = {"org_members"}
  /\ \E ok \in BOOLEAN :
       IF ok
         THEN /\ org_members' = [org_members EXCEPT ![user_id].is_active = active]
              /\ checkAdminAndLoad(userId, org_members')
         ELSE /\ error' = ErrUpdateActive
              /\ UNCHANGED <<org_members, page, members, isAdmin>>
  /\ UNCHANGED <<userId, orgId, role, busyUserId, inflight>>

(* ------------------------------------------------------------------ *)
(* Store queries on project_tasks and task_updates                    *)
(* ------------------------------------------------------------------ *)
\* String.prototype.trim on the drafts
trim(v) == IF v = " b" THEN "b" ELSE IF v = " " THEN "" ELSE v

\* the outcomes of a write the store answers: applied, refused with an
\* error, or (for .select('id') requests) answered with no row by a policy
Outcomes == {"ok", "error", "norow"}

\* select from project_tasks pt [where assignee_user_id = _userId]
selectTasks(pt, byAssignee, _userId) ==
  [t \in {x \in DOMAIN pt : ~byAssignee \/ pt[x].assignee_user_id = _userId}
     |-> pt[t]]

\* select from task_updates tu where task_id = taskId
selectUpdates(tu, taskId) == {r \in tu : r.task_id = taskId}

\* the status update without .eq('assignee_user_id', userId)
statusUpdateMatchesMut(taskId, byAssignee, _userId) ==
  taskId \in DOMAIN project_tasks

\* update project_tasks set status where id = taskId [and assignee_user_id
\* = _userId]: whether a row matches
statusUpdateMatches(taskId, byAssignee, _userId) ==
  /\ taskId \in DOMAIN project_tasks
  /\ ~byAssignee \/ project_tasks[taskId].assignee_user_id = _userId

(* ------------------------------------------------------------------ *)
(* Issues page                                                        *)
(* ------------------------------------------------------------------ *)
\* loadTasks without the assignee filter for non-supervisors
loadTasksMut(pt, _role, _userId) == selectTasks(pt, FALSE, _userId)

\* loadTasks(_orgId, _role, _userId)
loadTasks(pt, _role, _userId) ==
  selectTasks(pt, ~(_role = "admin" \/ _role = "manager"), _userId)

\* init of the issues page, for the session of user u
IssuesPageMount(u) ==
  /\ userId' = u
  /\ page' = "issues"
  /\ expandedTaskId' = NoTask
  /\ updatesByTask' = [t \in TaskIds |-> {}]
  /\ scope' = "me"
  /\ lastCall' = [fn |-> "init", target |-> u, arg |-> "issues"]
  /\ writes' = {}
  /\ IF ~org_members[u].is_active
       THEN /\ orgId' = "none"
            /\ role' = "member"
            /\ tasks' = NoTasks
            /\ error' = ErrNoMembership
       ELSE /\ orgId' = "org"
            /\ role' = org_members[u].role
            /\ tasks' = loadTasks(project_tasks, org_members[u].role, u)
            /\ error' = ErrNone
  /\ UNCHANGED <<org_members, memberVars, otherPageVars, project_tasks, task_updates, replySeq>>

\* what refresh() leaves in the page state, read from the store (pt, tu)
refreshed(pt, tu) ==
  /\ tasks' = loadTasks(pt, role, userId)
  /\ updatesByTask' =
       IF expandedTaskId = NoTask THEN updatesByTask
       ELSE [updatesByTask EXCEPT ![expandedTaskId] = selectUpdates(tu, expandedTaskId)]

\* refresh(): the "reload" button of the issues page
refresh ==
  /\ page = "issues"
  /\ orgId # "none"
  /\ refreshed(project_tasks, task_updates)
  /\ error' = ErrNone
  /\ lastCall' = [fn |-> "refresh", target |-> NoUser, arg |-> "issues"]
  /\ writes' = {}
  /\ UNCHANGED <<org_members, memberVars, otherPageVars, userId, page, orgId, role,
                 project_tasks, task_updates, replySeq, expandedTaskId, scope>>

\* toggleExpand(task)
toggleExpand(t) ==
  /\ page = "issues"
  /\ t \in DOMAIN tasks
  /\ expandedTaskId' = IF expandedTaskId = t THEN NoTask ELSE t
  /\ IF expandedTaskId # t /\ orgId # "none"
       THEN /\ updatesByTask' = [updatesByTask EXCEPT ![t] = selectUpdates(task_updates, t)]
            /\ error' = ErrNone
       ELSE UNCHANGED <<updatesByTask, error>>
  /\ lastCall' = [fn |-> "toggleExpand", target |-> t, arg |-> "none"]
  /\ writes' = {}
  /\ UNCHANGED <<org_members, memberVars, otherPageVars, userId, page, orgId, role,
                 project_tasks, task_updates, replySeq, tasks, scope>>

\* canReply(task), on the page's copy of the task
canReply(t) ==
  /\ userId # NoUser
  /\ isSupervisor \/ tasks[t].assignee_user_id = userId

\* canManageUpdate(u)
canManageUpdate(u) ==
  /\ userId # NoUser
  /\ isSupervisor \/ u.author_user_id = userId

\* the optional second write of postUpdate / saveUpdate: update
\* project_tasks set status = next where id = t [and assignee_user_id =
\* userId], followed by the handler's tail (loadUpdates, refresh); tu is
\* task_updates as the first write left it
syncTaskStatus(t, next, tu, errFailed) ==
  \E out \in Outcomes :
    /\ out = "ok" => statusUpdateMatches(t, ~isSupervisor, userId)
    /\ writes' = {"task_updates", "project_tasks"}
    /\ IF out = "ok"
         THEN /\ project_tasks' = [project_tasks EXCEPT ![t].status = next]
              /\ refreshed(project_tasks', tu)
              /\ error' = ErrNone
         ELSE /\ error' = IF out = "norow" THEN ErrStatusNoRow ELSE errFailed
              /\ UNCHANGED <<project_tasks, tasks, updatesByTask>>

\* postUpdate(task) with the draft message and the draft next status
postUpdate(t, draftMsg, draftNextStatus) ==
  /\ page = "issues"
  /\ orgId # "none"
  /\ t \in DOMAIN tasks
  /\ expandedTaskId = t
  /\ lastCall' = [fn |-> "postUpdate", target |-> t, arg |-> draftNextStatus]
  /\ IF ~canReply(t)
       THEN /\ error' = ErrReplyNotAssigned
            /\ writes' = {}
            /\ UNCHANGED <<project_tasks, task_updates, replySeq, tasks, updatesByTask>>
       ELSE IF trim(draftMsg) = ""
         THEN /\ writes' = {}
              /\ UNCHANGED <<project_tasks, task_updates, replySeq, tasks,
                             updatesByTask, error>>
         ELSE /\ replySeq < MaxReplies
              /\ \E ok \in BOOLEAN :
                   IF ~ok
                     THEN /\ error' = ErrPostFailed
                          /\ writes' = {"task_updates"}
                          /\ UNCHANGED <<project_tasks, task_updates, replySeq,
                                         tasks, updatesByTask>>
                     ELSE /\ replySeq' = replySeq + 1
                          /\ task_updates' = task_updates \cup
                               {[id |-> replySeq + 1, task_id |-> t,
                                 author_user_id |-> userId,
                                 message |-> trim(draftMsg),
                                 new_status |-> IF draftNextStatus = "" THEN "null"
                                                ELSE draftNextStatus]}
                          /\ IF draftNextStatus # ""
                               THEN syncTaskStatus(t, draftNextStatus, task_updates', ErrPostFailed)
                               ELSE /\ writes' = {"task_updates"}
                                    /\ refreshed(project_tasks, task_updates')
                                    /\ error' = ErrNone
                                    /\ UNCHANGED project_tasks
  /\ UNCHANGED <<org_members, memberVars, otherPageVars, userId, page, orgId, role,
                 expandedTaskId, scope>>

\* saveUpdate(taskId, u) with the edited message and next status
saveUpdate(t, u, editMsg, editNextStatus) ==
  /\ page = "issues"
  /\ orgId # "none"
  /\ expandedTaskId = t
  /\ u \in updatesByTask[t]
  /\ lastCall' = [fn |-> "saveUpdate", target |-> t, arg |-> editNextStatus]
  /\ IF ~canManageUpdate(u)
       THEN /\ error' = ErrEditNotOwn
            /\ writes' = {}
            /\ UNCHANGED <<project_tasks, task_updates, tasks, updatesByTask>>
       ELSE IF trim(editMsg) = ""
         THEN /\ writes' = {}
              /\ UNCHANGED <<project_tasks, task_updates, tasks, updatesByTask, error>>
         ELSE \E out \in Outcomes :
                /\ out = "ok" =>
                     \E r \in task_updates :
                       r.id = u.id /\ (isSupervisor \/ r.author_user_id = userId)
                /\ IF out # "ok"
                     THEN /\ error' = IF out = "norow" THEN ErrEditNoRow ELSE ErrEditFailed
                          /\ writes' = {"task_updates"}
                          /\ UNCHANGED <<project_tasks, task_updates, tasks, updatesByTask>>
                     ELSE /\ task_updates' =
                               {IF r.id = u.id
                                  THEN [r EXCEPT !.message = trim(editMsg),
                                                 !.new_status = IF editNextStatus = ""
                                                                  THEN "null"
                                                                  ELSE editNextStatus]
                                  ELSE r : r \in task_updates}
                          /\ IF editNextStatus # ""
                               THEN syncTaskStatus(t, editNextStatus, task_updates', ErrEditFailed)
                               ELSE /\ writes' = {"task_updates"}
                                    /\ refreshed(project_tasks, task_updates')
                                    /\ error' = ErrNone
                                    /\ UNCHANGED project_tasks
  /\ UNCHANGED <<org_members, memberVars, otherPageVars, userId, page, orgId, role, replySeq,
                 expandedTaskId, scope>>

\* deleteUpdate(taskId, u); confirmed is the answer to window.confirm
deleteUpdate(t, u, confirmed) ==
  /\ page = "issues"
  /\ orgId # "none"
  /\ expandedTaskId = t
  /\ u \in updatesByTask[t]
  /\ lastCall' = [fn |-> "deleteUpdate", target |-> t,
                  arg |-> IF confirmed THEN "confirmed" ELSE "dismissed"]
  /\ IF ~canManageUpdate(u)
       THEN /\ error' = ErrDeleteNotOwn
            /\ writes' = {}
            /\ UNCHANGED <<task_updates, tasks, updatesByTask>>
       ELSE IF ~confirmed
         THEN /\ writes' = {}
              /\ UNCHANGED <<task_updates, tasks, updatesByTask, error>>
         ELSE \E out \in Outcomes :
                /\ out = "ok" =>
                     \E r \in task_updates :
                       r.id = u.id /\ (isSupervisor \/ r.author_user_id = userId)
                /\ writes' = {"task_updates"}
                /\ IF out # "ok"
                     THEN /\ error' = IF out = "norow" THEN ErrDeleteNoRow
                                      ELSE ErrDeleteFailed
                          /\ UNCHANGED <<task_updates, tasks, updatesByTask>>
                     ELSE /\ task_updates' = {r \in task_updates : r.id # u.id}
                          /\ refreshed(project_tasks, task_updates')
                          /\ error' = ErrNone
  /\ UNCHANGED <<org_members, memberVars, otherPageVars, userId, page, orgId, role,
                 project_tasks, replySeq, expandedTaskId, scope>>

\* the three supervisor controls of the issues page: update project_tasks
\* set <field> = value where id = task.id, then refresh()
supervisorSet(fn, t, field, value) ==
  /\ page = "issues"
  /\ t \in DOMAIN tasks
  /\ lastCall' = [fn |-> fn, target |-> t, arg |-> value]
  /\ IF ~isSupervisor
       THEN /\ writes' = {}
            /\ UNCHANGED <<project_tasks, tasks, updatesByTask, error>>
       ELSE \E out \in Outcomes :
              /\ writes' = {"project_tasks"}
              /\ IF out = "ok"
                   THEN /\ project_tasks' = [project_tasks EXCEPT ![t][field] = value]
                        /\ IF orgId # "none"
                             THEN refreshed(project_tasks', task_updates)
                             ELSE UNCHANGED <<tasks, updatesByTask>>
                        /\ error' = ErrNone
                   ELSE /\ error' = IF out = "norow" THEN ErrTaskNoRow ELSE ErrTaskFailed
                        /\ UNCHANGED <<project_tasks, tasks, updatesByTask>>
  /\ UNCHANGED <<org_members, memberVars, otherPageVars, userId, page, orgId, role,
                 task_updates, replySeq, expandedTaskId, scope>>

supervisorSetAssignee(t, nextAssignee) ==
  supervisorSet("supervisorSetAssignee", t, "assignee_user_id", nextAssignee)

supervisorSetStatus(t, nextStatus) ==
  supervisorSet("supervisorSetStatus", t, "status", nextStatus)

supervisorSetExpectedFinishAt(t, nextIso) ==
  supervisorSet("supervisorSetExpectedFinishAt", t, "expected_finish_at", nextIso)

(* ------------------------------------------------------------------ *)
(* Dashboard                                                          *)
(* ------------------------------------------------------------------ *)
\* loadDashboardData(orgId, userRole, currentUserId): the query is narrowed
\* by the isSupervisor constant of the render whose closure runs it, the
\* userRole parameter is not read
loadDashboardData(pt, closureIsSupervisor, userRole, currentUserId) ==
  selectTasks(pt, ~closureIsSupervisor, currentUserId)

\* initialize of the dashboard, for the session of user u; it runs in the
\* closure of the first render
DashboardMount(u) ==
  /\ userId' = u
  /\ page' = "dashboard"
  /\ expandedTaskId' = NoTask
  /\ updatesByTask' = [t \in TaskIds |-> {}]
  /\ scope' = "me"
  /\ lastCall' = [fn |-> "initialize", target |-> u, arg |-> "dashboard"]
  /\ writes' = {}
  /\ IF ~org_members[u].is_active
       THEN /\ orgId' = "none"
            /\ role' = initialRole
            /\ tasks' = NoTasks
            /\ error' = ErrNoMembership
       ELSE /\ orgId' = "org"
            /\ role' = org_members[u].role
            /\ tasks' = loadDashboardData(project_tasks, isSupervisorOf(initialRole),
                                          org_members[u].role, u)
            /\ error' = ErrNone
  /\ UNCHANGED <<org_members, memberVars, otherPageVars, project_tasks, task_updates, replySeq>>

\* handleRefresh()
handleRefresh ==
  /\ page = "dashboard"
  /\ orgId # "none"
  /\ tasks' = loadDashboardData(project_tasks, isSupervisor, role, userId)
  /\ error' = ErrNone
  /\ lastCall' = [fn |-> "handleRefresh", target |-> NoUser, arg |-> "none"]
  /\ writes' = {}
  /\ UNCHANGED <<org_members, memberVars, otherPageVars, userId, page, orgId, role,
                 project_tasks, task_updates, replySeq, expandedTaskId,
                 updatesByTask, scope>>

\* handleQuickStatusUpdate(task, newStatus)
handleQuickStatusUpdate(t, newStatus) ==
  /\ page = "dashboard"
  /\ orgId # "none"
  /\ t \in DOMAIN tasks
  /\ lastCall' = [fn |-> "handleQuickStatusUpdate", target |-> t, arg |-> newStatus]
  /\ writes' = {"project_tasks"}
  /\ \E out \in Outcomes :
       /\ out = "ok" => statusUpdateMatches(t, ~isSupervisor, userId)
       /\ IF out = "ok"
            THEN /\ project_tasks' = [project_tasks EXCEPT ![t].status = newStatus]
                 /\ tasks' = loadDashboardData(project_tasks', isSupervisor, role, userId)
                 /\ error' = ErrNone
            ELSE /\ error' = IF out = "norow" THEN ErrQuickNoRow ELSE ErrQuickFailed
                 /\ UNCHANGED <<project_tasks, tasks>>
  /\ UNCHANGED <<org_members, memberVars, otherPageVars, userId, page, orgId, role,
                 task_updates, replySeq, expandedTaskId, updatesByTask, scope>>

(* ------------------------------------------------------------------ *)
(* Completion history page                                            *)
(* ------------------------------------------------------------------ *)
\* the v_task_completion rows runQuery may keep: the done tasks, narrowed
\* to the user's own under scope "me"; the date and keyword filters keep
\* any part of them
completionRows(pt, effScope, _userId) ==
  {keep \in SUBSET {t \in DOMAIN pt :
                      /\ pt[t].status = "done"
                      /\ effScope = "me" => pt[t].assignee_user_id = _userId} :
     TRUE}

\* const effScope: Scope = isSupervisor ? scope : 'me'
effScope(sup, sc) == IF sup THEN sc ELSE "me"

\* init of the history page followed by the query its effect starts
HistoryPageMount(u) ==
  /\ userId' = u
  /\ page' = "history"
  /\ expandedTaskId' = NoTask
  /\ updatesByTask' = [t \in TaskIds |-> {}]
  /\ lastCall' = [fn |-> "init", target |-> u, arg |-> "history"]
  /\ writes' = {}
  /\ IF ~org_members[u].is_active
       THEN /\ orgId' = "none"
            /\ role' = initialRole
            /\ scope' = "me"
            /\ tasks' = NoTasks
            /\ error' = ErrNoMembership
       ELSE /\ orgId' = "org"
            /\ role' = org_members[u].role
            /\ scope' = IF isSupervisorOf(org_members[u].role) THEN "all" ELSE "me"
            /\ error' = ErrNone
            /\ \E keep \in completionRows(project_tasks,
                             effScope(isSupervisorOf(org_members[u].role), scope'), u) :
                 tasks' = [t \in keep |-> project_tasks[t]]
  /\ UNCHANGED <<org_members, memberVars, otherPageVars, project_tasks, task_updates, replySeq>>

\* runQuery() on the tasks tab, after the scope select was set to sc (the
\* effect reruns the query) or after the reload button
runQuery(sc) ==
  /\ page = "history"
  /\ orgId # "none"
  /\ scope' = sc
  /\ \E keep \in completionRows(project_tasks, effScope(isSupervisor, sc), userId) :
       tasks' = [t \in keep |-> project_tasks[t]]
  /\ error' = ErrNone
  /\ lastCall' = [fn |-> "runQuery", target |-> NoUser, arg |-> sc]
  /\ writes' = {}
  /\ UNCHANGED <<org_members, memberVars, otherPageVars, userId, page, orgId, role,
                 project_tasks, task_updates, replySeq, expandedTaskId,
                 updatesByTask>>

(* ------------------------------------------------------------------ *)
(* Projects page: the task controls                                   *)
(* ------------------------------------------------------------------ *)
\* init of the projects page, for the session of user u
ProjectsPageMount(u) ==
  /\ userId' = u
  /\ page' = "projects"
  /\ expandedTaskId' = NoTask
  /\ updatesByTask' = [t \in TaskIds |-> {}]
  /\ scope' = "me"
  /\ tasks' = NoTasks
  /\ lastCall' = [fn |-> "init", target |-> u, arg |-> "projects"]
  /\ writes' = {}
  /\ IF ~org_members[u].is_active
       THEN /\ orgId' = "none"
            /\ role' = initialRole
            /\ error' = ErrNoMembership
       ELSE /\ orgId' = "org"
            /\ role' = org_members[u].role
            /\ error' = ErrNone
  /\ UNCHANGED <<org_members, memberVars, otherPageVars, project_tasks, task_updates, replySeq>>

\* loadTasks(projectId) of the projects page: every task of the project
projectLoadTasks(pt) == selectTasks(pt, FALSE, NoUser)

\* onToggleExpand(projectId): project rows exist for supervisors only
onToggleExpand ==
  /\ page = "projects"
  /\ orgId # "none"
  /\ isSupervisor
  /\ tasks' = projectLoadTasks(project_tasks)
  /\ error' = ErrNone
  /\ lastCall' = [fn |-> "onToggleExpand", target |-> NoUser, arg |-> "none"]
  /\ writes' = {}
  /\ UNCHANGED <<org_members, memberVars, otherPageVars, userId, page, orgId, role,
                 project_tasks, task_updates, replySeq, expandedTaskId,
                 updatesByTask, scope>>

\* canSupervisorSetStatus that lets any signed-in user through
canSupervisorSetStatusMut == userId # NoUser

\* canSupervisorSetStatus()
canSupervisorSetStatus == isSupervisor

\* supervisorSetTaskStatus / supervisorUpdateAssignee /
\* supervisorUpdateExpectedFinishAt: update project_tasks set <field> where
\* id = task.id, without .select(); then loadTasks(task.project_id)
supervisorUpdate(fn, t, field, value) ==
  /\ page = "projects"
  /\ t \in DOMAIN project_tasks
  /\ lastCall' = [fn |-> fn, target |-> t, arg |-> value]
  /\ IF ~canSupervisorSetStatus
       THEN /\ writes' = {}
            /\ UNCHANGED <<project_tasks, tasks, error>>
       ELSE \E out \in Outcomes :
              /\ writes' = {"project_tasks"}
              /\ IF out = "error"
                   THEN /\ error' = ErrTaskFailed
                        /\ UNCHANGED <<project_tasks, tasks>>
                   ELSE /\ project_tasks' =
                             IF out = "ok"
                               THEN [project_tasks EXCEPT ![t][field] = value]
                               ELSE project_tasks
                        /\ tasks' = projectLoadTasks(project_tasks')
                        /\ error' = ErrNone
  /\ UNCHANGED <<org_members, memberVars, otherPageVars, userId, page, orgId, role,
                 task_updates, replySeq, expandedTaskId, updatesByTask, scope>>

supervisorSetTaskStatus(t, next) ==
  supervisorUpdate("supervisorSetTaskStatus", t, "status", next)

supervisorUpdateAssignee(t, nextAssigneeUserId) ==
  supervisorUpdate("supervisorUpdateAssignee", t, "assignee_user_id", nextAssigneeUserId)

supervisorUpdateExpectedFinishAt(t, nextIso) ==
  supervisorUpdate("supervisorUpdateExpectedFinishAt", t, "expected_finish_at", nextIso)

(* ------------------------------------------------------------------ *)
(* Plans page: daily log and approval                                 *)
(* ------------------------------------------------------------------ *)
\* the variables the plans page leaves alone
nonPlanVars == <<org_members, memberVars, taskVars, dueVars, sidebarVars,
                 loadVars>>

\* loadDailyLog(date, orgId, userId) against the store contents (dl, ap):
\* the log of the user for the day, its items and its approval
loadDailyLog(dl, ap, date, _userId) ==
  IF dl[_userId][date].status = NoLog
    THEN /\ dailyLog' = NoDailyLog
         /\ dailyItems' = 0
         /\ approval' = NoApproval
    ELSE /\ dailyLog' = [user_id |-> _userId, log_date |-> date,
                         status |-> dl[_userId][date].status]
         /\ dailyItems' = dl[_userId][date].items
         /\ approval' = IF ap[_userId][date].status = "none" THEN NoApproval
                        ELSE ap[_userId][date]

\* init of the plans page, for the session of user u
PlansPageMount(u) ==
  /\ userId' = u
  /\ page' = "plans"
  /\ selectedDate' = Today
  /\ isEditing' = FALSE
  /\ editedItems' = 0
  /\ lastCall' = [fn |-> "init", target |-> u, arg |-> "plans"]
  /\ writes' = {}
  /\ IF ~org_members[u].is_active
       THEN /\ orgId' = "none"
            /\ role' = initialRole
            /\ error' = ErrPlansInit
            /\ dailyLog' = NoDailyLog
            /\ dailyItems' = 0
            /\ approval' = NoApproval
       ELSE /\ orgId' = "org"
            /\ role' = org_members[u].role
            /\ error' = ErrNone
            /\ loadDailyLog(daily_logs, approvals, Today, u)
  /\ UNCHANGED <<daily_logs, approvals, nonPlanVars>>

\* const canEdit
canEdit == dailyLog = NoDailyLog \/ dailyLog.status \in {"draft", "rejected"}

\* const canSubmit
canSubmit == dailyLog # NoDailyLog /\ dailyLog.status = "draft" /\ dailyItems > 0

\* startEditing(), offered while !isEditing && canEdit
startEditing ==
  /\ page = "plans"
  /\ orgId # "none"
  /\ ~isEditing
  /\ canEdit
  /\ isEditing' = TRUE
  /\ editedItems' = dailyItems
  /\ error' = ErrNone
  /\ lastCall' = [fn |-> "startEditing", target |-> userId, arg |-> "none"]
  /\ writes' = {}
  /\ UNCHANGED <<userId, page, orgId, role, daily_logs, approvals, dailyLog,
                 dailyItems, approval, selectedDate, nonPlanVars>>

\* addItem() followed by updateItem giving it a description
addItem ==
  /\ page = "plans"
  /\ isEditing
  /\ editedItems < MaxItems
  /\ editedItems' = editedItems + 1
  /\ lastCall' = [fn |-> "addItem", target |-> userId, arg |-> "none"]
  /\ writes' = {}
  /\ UNCHANGED <<userId, page, orgId, role, error, daily_logs, approvals,
                 dailyLog, dailyItems, approval, isEditing, selectedDate,
                 nonPlanVars>>

\* removeItem(id)
removeItem ==
  /\ page = "plans"
  /\ isEditing
  /\ editedItems > 0
  /\ editedItems' = editedItems - 1
  /\ lastCall' = [fn |-> "removeItem", target |-> userId, arg |-> "none"]
  /\ writes' = {}
  /\ UNCHANGED <<userId, page, orgId, role, error, daily_logs, approvals,
                 dailyLog, dailyItems, approval, isEditing, selectedDate,
                 nonPlanVars>>

\* handleSaveDailyLog(), offered while isEditing: updates the loaded log
\* (.eq('id', dailyLog.id)) and its items, or inserts a draft log of the
\* selected day with the items; then loadDailyLog. lastCall.arg is the day
\* of the log written
handleSaveDailyLog ==
  /\ page = "plans"
  /\ orgId # "none"
  /\ isEditing
  /\ LET day == IF dailyLog = NoDailyLog THEN selectedDate
                ELSE dailyLog.log_date
     IN
     /\ lastCall' = [fn |-> "handleSaveDailyLog", target |-> userId,
                     arg |-> day]
     /\ \E ok \in BOOLEAN :
          IF ok
            THEN /\ daily_logs' =
                      [daily_logs EXCEPT ![userId][day] =
                         [status |-> IF dailyLog = NoDailyLog THEN "draft"
                                     ELSE daily_logs[userId][day].status,
                          items |-> editedItems]]
                 /\ writes' = {"daily_logs", "daily_items"}
                 /\ loadDailyLog(daily_logs', approvals, selectedDate, userId)
                 /\ isEditing' = FALSE
                 /\ error' = ErrNone
            ELSE /\ writes' = {"daily_logs"}
                 /\ error' = ErrSaveFailed
                 /\ UNCHANGED <<daily_logs, dailyLog, dailyItems, approval,
                                isEditing>>
  /\ UNCHANGED <<userId, page, orgId, role, approvals, editedItems,
                 selectedDate, nonPlanVars>>

\* handleSubmitForApproval(), offered while !isEditing && canSubmit: sets the
\* log to pending, inserts a pending approval unless the log has one, then
\* loadDailyLog
handleSubmitForApproval ==
  /\ page = "plans"
  /\ orgId # "none"
  /\ ~isEditing
  /\ canSubmit
  /\ lastCall' = [fn |-> "handleSubmitForApproval", target |-> userId, arg |-> "none"]
  /\ \E okLog \in BOOLEAN, okApproval \in BOOLEAN :
       LET o == dailyLog.user_id
           d == dailyLog.log_date
       IN
       IF ~okLog
         THEN /\ writes' = {"daily_logs"}
              /\ error' = ErrSubmitFailed
              /\ UNCHANGED <<daily_logs, approvals, dailyLog, dailyItems, approval>>
         ELSE /\ daily_logs' = [daily_logs EXCEPT ![o][d].status = "pending"]
              /\ IF approvals[o][d].status # "none"
                   THEN /\ okApproval
                        /\ writes' = {"daily_logs"}
                        /\ UNCHANGED approvals
                        /\ loadDailyLog(daily_logs', approvals, selectedDate, userId)
                        /\ error' = ErrNone
                   ELSE /\ writes' = {"daily_logs", "approvals"}
                        /\ IF okApproval
                             THEN /\ approvals' =
                                       [approvals EXCEPT ![o][d] =
                                          [target_id |-> [user_id |-> o,
                                                          log_date |-> d],
                                           status |-> "pending",
                                           requester_user_id |-> userId,
                                           approver_user_id |-> NoUser]]
                                  /\ loadDailyLog(daily_logs', approvals',
                                                  selectedDate, userId)
                                  /\ error' = ErrNone
                             ELSE /\ error' = ErrSubmitFailed
                                  /\ UNCHANGED <<approvals, dailyLog, dailyItems, approval>>
  /\ UNCHANGED <<userId, page, orgId, role, isEditing, editedItems,
                 selectedDate, nonPlanVars>>

\* handleApproval(approved, comments), offered in the approval section while
\* isSupervisor && approval.status === 'pending': writes the decision and
\* the approver to the approval, the new status to the log, then
\* loadDailyLog; an update without .select() that matches no row is taken
\* as done
handleApproval(approved) ==
  /\ page = "plans"
  /\ orgId # "none"
  /\ isSupervisor
  /\ dailyLog # NoDailyLog
  /\ approval # NoApproval
  /\ approval.status = "pending"
  /\ lastCall' = [fn |-> "handleApproval", target |-> approval.target_id.user_id,
                  arg |-> IF approved THEN "approved" ELSE "rejected"]
  /\ \E outApproval \in Outcomes, outLog \in Outcomes :
       LET newStatus == IF approved THEN "approved" ELSE "rejected"
           t == approval.target_id
       IN
       IF outApproval = "error"
         THEN /\ outLog = "error"
              /\ writes' = {"approvals"}
              /\ error' = ErrApprovalFailed
              /\ UNCHANGED <<daily_logs, approvals, dailyLog, dailyItems, approval>>
         ELSE /\ approvals' =
                   IF outApproval = "ok"
                     THEN [approvals EXCEPT ![t.user_id][t.log_date] =
                             [@ EXCEPT !.status = newStatus,
                                       !.approver_user_id = userId]]
                     ELSE approvals
              /\ writes' = {"approvals", "daily_logs"}
              /\ IF outLog = "error"
                   THEN /\ error' = ErrApprovalFailed
                        /\ UNCHANGED <<daily_logs, dailyLog, dailyItems, approval>>
                   ELSE /\ daily_logs' =
                             IF outLog = "ok"
                               THEN [daily_logs EXCEPT
                                       ![dailyLog.user_id][dailyLog.log_date].status
                                         = newStatus]
                               ELSE daily_logs
                        /\ loadDailyLog(daily_logs', approvals', selectedDate,
                                        userId)
                        /\ error' = ErrNone
  /\ UNCHANGED <<userId, page, orgId, role, isEditing, editedItems,
                 selectedDate, nonPlanVars>>

\* newDate.setDate(newDate.getDate() + delta) within the days of the week
addDays(date, delta) ==
  IF date = "d1" /\ delta = 1 THEN "d2"
  ELSE IF date = "d2" /\ delta = -1 THEN "d1"
  ELSE NoDate

\* setSelectedDate(date) and the effect on [selectedDate, ...] it triggers:
\* loadDailyLog(selectedDate, orgId, userId)
setSelectedDate(date) ==
  /\ selectedDate' = date
  /\ IF orgId # "none"
       THEN loadDailyLog(daily_logs, approvals, date, userId)
       ELSE UNCHANGED <<dailyLog, dailyItems, approval>>
  /\ writes' = {}
  /\ UNCHANGED <<userId, page, orgId, role, error, daily_logs, approvals,
                 editedItems, nonPlanVars>>

\* changeDate(delta): the arrow buttons
changeDate(delta) ==
  /\ page = "plans"
  /\ addDays(selectedDate, delta) \in Dates
  /\ setSelectedDate(addDays(selectedDate, delta))
  /\ isEditing' = FALSE
  /\ lastCall' = [fn |-> "changeDate", target |-> userId, arg |-> "none"]

\* the today button: onClick={() => setSelectedDate(new Date())}
selectToday ==
  /\ page = "plans"
  /\ setSelectedDate(Today)
  /\ lastCall' = [fn |-> "setSelectedDate", target |-> userId, arg |-> Today]
  /\ UNCHANGED isEditing

\* a day button of the week view: onClick={() => setSelectedDate(day)}
selectWeekDay(day) ==
  /\ page = "plans"
  /\ setSelectedDate(day)
  /\ lastCall' = [fn |-> "setSelectedDate", target |-> userId, arg |-> day]
  /\ UNCHANGED isEditing

(* ------------------------------------------------------------------ *)
(* Task pages: specification                                          *)
(* ------------------------------------------------------------------ *)
\* a supervisor of another session reassigns a task (supervisorSetAssignee
\* completing there); of this session only the record of the last call and
\* its writes changes, the page state is not touched
OtherSessionSetAssignee(t, nextAssignee) ==
  /\ t \in DOMAIN project_tasks
  /\ \E s \in Users : org_members[s].is_active /\ isSupervisorOf(org_members[s].role)
  /\ project_tasks[t].assignee_user_id # nextAssignee
  /\ project_tasks' = [project_tasks EXCEPT ![t].assignee_user_id = nextAssignee]
  /\ lastCall' = [fn |-> "supervisorSetAssignee (other session)", target |-> t,
                  arg |-> nextAssignee]
  /\ writes' = {"project_tasks"}
  /\ UNCHANGED <<org_members, memberVars, otherPageVars, userId, page, orgId, role, error,
                 task_updates, replySeq, tasks, expandedTaskId, updatesByTask,
                 scope>>

\* the plans page not mounted and no daily log in the store
InitPlansIdle ==
  /\ daily_logs = [u \in Users |-> [d \in Dates |-> [status |-> NoLog, items |-> 0]]]
  /\ approvals = [u \in Users |-> [d \in Dates |-> NoApproval]]
  /\ selectedDate = Today
  /\ dailyLog = NoDailyLog
  /\ dailyItems = 0
  /\ approval = NoApproval
  /\ isEditing = FALSE
  /\ editedItems = 0

\* no init awaiting a response, nothing fetched
InitLoadIdle ==
  /\ projectCache = NoProject
  /\ projectMap = NoProject
  /\ initUser = NoUser
  /\ cancelled = FALSE
  /\ membersOf = "none"
  /\ loadsInFlight = {}

\* nothing rendered yet
InitDueIdle ==
  /\ now = DayLen
  /\ tzOffset = 0
  /\ taskList = << >>
  /\ todayUTC = NoInstant
  /\ row = NoRow
  /\ kpi = NoKpi
  /\ actionLists = NoLists

\* the sidebar not loaded
InitSidebarIdle ==
  /\ memberships = EmptyList
  /\ sidebarRole = initialRole

\* the users the assignee select offers (v_org_users)
orgUsers == {u \in Users : org_members[u].is_active}

\* the state before any page is mounted: a supervisor u1, a member u2 and a
\* deactivated member u3; the store holds the tasks ids and no reply
InitTaskPages(ids, instants) ==
  /\ org_members \in {[u1 |-> [role |-> r, is_active |-> TRUE],
                       u2 |-> [role |-> "member", is_active |-> TRUE],
                       u3 |-> [role |-> "member", is_active |-> FALSE]] :
                      r \in {"admin", "manager"}}
  /\ project_tasks \in [ids -> [assignee_user_id : orgUsers \cup {NoUser},
                                status : TaskStatus,
                                expected_finish_at : instants]]
  /\ task_updates = {}
  /\ replySeq = 0
  /\ userId = NoUser
  /\ page = "none"
  /\ orgId = "none"
  /\ role = initialRole
  /\ members = EmptyList
  /\ isAdmin = FALSE
  /\ busyUserId = NoUser
  /\ inflight = 0
  /\ error = ErrNone
  /\ lastCall = NoCall
  /\ writes = {}
  /\ tasks = NoTasks
  /\ expandedTaskId = NoTask
  /\ updatesByTask = [t \in TaskIds |-> {}]
  /\ scope = "me"
  /\ InitPlansIdle
  /\ InitLoadIdle
  /\ InitDueIdle
  /\ InitSidebarIdle

\* loading the task lists: the issues page, the dashboard and the history
\* page over two tasks, with the mutations that reload them
InitTaskViews == InitTaskPages(TaskIds, {"null"})

NextTaskViews ==
  \/ \E u \in Users : IssuesPageMount(u)
  \/ refresh
  \/ \E t \in TaskIds, a \in orgUsers \cup {NoUser} : supervisorSetAssignee(t, a)
  \/ \E t \in TaskIds, n \in TaskStatus : supervisorSetStatus(t, n)
  \/ \E u \in Users : DashboardMount(u)
  \/ handleRefresh
  \/ \E t \in TaskIds, n \in TaskStatus : handleQuickStatusUpdate(t, n)
  \/ \E u \in Users : HistoryPageMount(u)
  \/ \E sc \in {"all", "me"} : runQuery(sc)
  \/ \E t \in TaskIds, a \in orgUsers \cup {NoUser} : OtherSessionSetAssignee(t, a)

SpecTaskViews == InitTaskViews /\ [][NextTaskViews]_vars

\* the supervisor controls of one task: the issues page and the projects
\* page
InitTaskControls == InitTaskPages({"t1"}, Instants)

NextTaskControls ==
  \/ \E u \in Users : IssuesPageMount(u)
  \/ refresh
  \/ \E t \in TaskIds, a \in orgUsers \cup {NoUser} : supervisorSetAssignee(t, a)
  \/ \E t \in TaskIds, n \in TaskStatus : supervisorSetStatus(t, n)
  \/ \E t \in TaskIds, i \in Instants : supervisorSetExpectedFinishAt(t, i)
  \/ \E u \in Users : ProjectsPageMount(u)
  \/ onToggleExpand
  \/ \E t \in TaskIds, n \in TaskStatus : supervisorSetTaskStatus(t, n)
  \/ \E t \in TaskIds, a \in orgUsers \cup {NoUser} : supervisorUpdateAssignee(t, a)
  \/ \E t \in TaskIds, i \in Instants : supervisorUpdateExpectedFinishAt(t, i)
  \/ \E t \in TaskIds, a \in orgUsers \cup {NoUser} : OtherSessionSetAssignee(t, a)

SpecTaskControls == InitTaskControls /\ [][NextTaskControls]_vars

\* the status of one task and its progress replies: the issues page and
\* the dashboard
InitReplies == InitTaskPages({"t1"}, {"null"})

NextReplies ==
  \/ \E u \in Users : IssuesPageMount(u)
  \/ refresh
  \/ \E t \in TaskIds : toggleExpand(t)
  \/ \E t \in TaskIds, m \in Drafts, n \in StatusDrafts : postUpdate(t, m, n)
  \/ \E t \in TaskIds : \E u \in updatesByTask[t], m \in Drafts, n \in StatusDrafts :
       saveUpdate(t, u, m, n)
  \/ \E t \in TaskIds : \E u \in updatesByTask[t], c \in BOOLEAN : deleteUpdate(t, u, c)
  \/ \E t \in TaskIds, n \in TaskStatus : supervisorSetStatus(t, n)
  \/ \E u \in Users : DashboardMount(u)
  \/ handleRefresh
  \/ \E t \in TaskIds, n \in TaskStatus : handleQuickStatusUpdate(t, n)
  \/ \E t \in TaskIds, a \in orgUsers \cup {NoUser} : OtherSessionSetAssignee(t, a)

SpecReplies == InitReplies /\ [][NextReplies]_vars

(* ------------------------------------------------------------------ *)
(* Member management: specifications                                  *)
(* ------------------------------------------------------------------ *)
InitMembers ==
  /\ org_members \in [Users -> MemberRows]
  /\ activeAdminCount(org_members) >= 1
  /\ userId = NoUser
  /\ page = "none"
  /\ orgId = "none"
  /\ role = "member"
  /\ members = EmptyList
  /\ isAdmin = FALSE
  /\ busyUserId = NoUser
  /\ inflight = 0
  /\ error = ErrNone
  /\ lastCall = NoCall
  /\ writes = {}
  /\ project_tasks = NoTasks
  /\ task_updates = {}
  /\ replySeq = 0
  /\ tasks = NoTasks
  /\ expandedTaskId = NoTask
  /\ updatesByTask = [t \in TaskIds |-> {}]
  /\ scope = "me"
  /\ InitPlansIdle
  /\ InitLoadIdle
  /\ InitDueIdle
  /\ InitSidebarIdle

\* the members page alone
NextMembersPage ==
  \/ \E u \in Users : MembersPageMount(u)
  \/ MembersRefresh
  \/ \E t \in Users, r \in OrgRole : changeRole(t, r)
  \/ \E t \in Users : toggleActive(t)
  \/ MembersReloaded

SpecMembersPage == InitMembers /\ [][NextMembersPage]_vars

\* the members page and the admin page
NextMembers ==
  \/ \E u \in Users : MembersPageMount(u)
  \/ MembersRefresh
  \/ \E t \in Users, r \in OrgRole : changeRole(t, r)
  \/ \E t \in Users : toggleActive(t)
  \/ MembersReloaded
  \/ \E u \in Users : AdminPageMount(u)
  \/ \E t \in Users, r \in OrgRole : setRole(t, r)
  \/ \E t \in Users, a \in BOOLEAN : setActive(t, a)

SpecMembers == InitMembers /\ [][NextMembers]_vars

(* ------------------------------------------------------------------ *)
(* Member management: claims                                          *)
(* ------------------------------------------------------------------ *)
\* C1: after any sequence of changeRole and toggleActive calls, also calls
\* made before the list of an earlier call was reloaded, the organization
\* still has a member with role admin and is_active true.
C1_AlwaysAnActiveAdmin == activeAdminCount(org_members) >= 1

\* C2: while org_members holds exactly one active admin, changeRole of that
\* admin to a non-admin role and toggleActive of that admin fail: an error
\* is set and no update is sent.
C2_SoleAdminCallsFail ==
  [][\A t \in Users :
       (/\ activeAdminCount(org_members) = 1
        /\ org_members[t].role = "admin"
        /\ org_members[t].is_active)
       => /\ \A r \in OrgRole \ {"admin"} :
               changeRole(t, r) => (error' # ErrNone /\ writes' = {})
          /\ toggleActive(t) => (error' # ErrNone /\ writes' = {})]_vars

\* C3: no call of toggleActive (members page) or setActive (admin page)
\* whose target is the acting user makes the actor's membership inactive.
C3_NoSelfDeactivation ==
  [][(/\ userId \in Users
      /\ org_members[userId].is_active
      /\ \/ toggleActive(userId)
         \/ \E a \in BOOLEAN : setActive(userId, a))
     => org_members'[userId].is_active]_vars

\* C4: every role change whose new role is admin, from setRole of the admin
\* page or changeRole of the members page, sets a rejection reason and
\* sends no update.
C4_AdminElevationRejected ==
  [][\A t \in Users :
       (changeRole(t, "admin") \/ setRole(t, "admin"))
       => (error' # ErrNone /\ writes' = {})]_vars

(* ------------------------------------------------------------------ *)
(* Task pages: claims                                                 *)
(* ------------------------------------------------------------------ *)
\* C5: on the issues page, the dashboard and the completion-history page,
\* every task held in the view state of a non-supervisor has
\* assignee_user_id equal to the user's id, after every load.
C5_MemberHoldsOwnTasksOnly ==
  (page \in {"issues", "dashboard", "history"} /\ ~isSupervisor)
  => \A t \in DOMAIN tasks : tasks[t].assignee_user_id = userId

\* C5 witness: a member's dashboard reloaded after a status update holds a
\* task while the store holds a task of another assignee.
C5_Witness ==
  /\ page = "dashboard"
  /\ ~isSupervisor
  /\ lastCall.fn = "handleQuickStatusUpdate"
  /\ error = ErrNone
  /\ DOMAIN tasks # {}
  /\ \E t \in DOMAIN project_tasks : project_tasks[t].assignee_user_id # userId

\* C6: a supervisor (admin or manager) holds every task of the organization
\* after every load of the issues page and of the dashboard, the first load
\* of the dashboard's initialize included.
C6_SupervisorHoldsAllTasks ==
  (page \in {"issues", "dashboard"} /\ orgId # "none" /\ isSupervisor)
  => DOMAIN tasks = DOMAIN project_tasks

\* C7: a call of handleQuickStatusUpdate, or of postUpdate / saveUpdate with
\* a message and a next status, by a member who is not the task's assignee
\* in the store (also when the page still shows the member as assignee)
\* leaves the task's status unchanged and sets an error.
C7_StatusOnlyBySupervisorOrAssignee ==
  [][\A t \in DOMAIN project_tasks :
       (/\ userId \in Users
        /\ ~isSupervisor
        /\ project_tasks[t].assignee_user_id # userId
        /\ \/ \E n \in TaskStatus : handleQuickStatusUpdate(t, n)
           \/ \E m \in Drafts, n \in StatusDrafts :
                trim(m) # "" /\ n # "" /\ postUpdate(t, m, n)
           \/ \E u \in updatesByTask[t], m \in Drafts, n \in StatusDrafts :
                trim(m) # "" /\ n # "" /\ saveUpdate(t, u, m, n))
       => /\ project_tasks'[t].status = project_tasks[t].status
          /\ error' # ErrNone]_vars

\* C7 witness: a member whose page still shows them as assignee of a task
\* that was reassigned posted a reply with next status done, and the status
\* update matched no row.
C7_Witness ==
  /\ page = "issues"
  /\ ~isSupervisor
  /\ lastCall = [fn |-> "postUpdate", target |-> "t1", arg |-> "done"]
  /\ writes = {"task_updates", "project_tasks"}
  /\ error = ErrStatusNoRow
  /\ "t1" \in DOMAIN tasks
  /\ tasks["t1"].assignee_user_id = userId
  /\ project_tasks["t1"].assignee_user_id # userId
  /\ project_tasks["t1"].status # "done"

\* C8: when the page's role is member, supervisorSetAssignee and
\* supervisorSetExpectedFinishAt (issues page) and supervisorUpdateAssignee
\* and supervisorUpdateExpectedFinishAt (projects page) send no update and
\* leave the task unchanged, also when the user is the task's assignee.
C8_AssigneeAndFinishOnlyBySupervisor ==
  [][\A t \in TaskIds :
       (/\ ~isSupervisor
        /\ \/ \E a \in Users \cup {NoUser} :
                supervisorSetAssignee(t, a) \/ supervisorUpdateAssignee(t, a)
           \/ \E i \in Instants :
                \/ supervisorSetExpectedFinishAt(t, i)
                \/ supervisorUpdateExpectedFinishAt(t, i))
       => /\ writes' = {}
          /\ project_tasks' = project_tasks]_vars

\* C8 witness: a member who is the assignee of a task called
\* supervisorSetExpectedFinishAt with another instant than the task's.
C8_Witness ==
  /\ page = "issues"
  /\ ~isSupervisor
  /\ lastCall.fn = "supervisorSetExpectedFinishAt"
  /\ lastCall.target = "t1"
  /\ project_tasks["t1"].assignee_user_id = userId
  /\ project_tasks["t1"].expected_finish_at # lastCall.arg
  /\ writes = {}

\* C9: for a user who is neither a supervisor nor the task's assignee,
\* postUpdate with a message sets an error and sends no write to
\* task_updates; for a user who is neither a supervisor nor the reply's
\* author, saveUpdate with a message and a confirmed deleteUpdate do too.
C9_RepliesOnlyByEntitledActors ==
  [][\A t \in DOMAIN project_tasks :
       (/\ userId \in Users
        /\ ~isSupervisor
        /\ \/ /\ project_tasks[t].assignee_user_id # userId
              /\ \E m \in Drafts, n \in StatusDrafts :
                   trim(m) # "" /\ postUpdate(t, m, n)
           \/ \E u \in updatesByTask[t] :
                /\ u.author_user_id # userId
                /\ \/ \E m \in Drafts, n \in StatusDrafts :
                        trim(m) # "" /\ saveUpdate(t, u, m, n)
                   \/ deleteUpdate(t, u, TRUE))
       => /\ error' # ErrNone
          /\ "task_updates" \notin writes']_vars

\* C10: when postUpdate or saveUpdate carries a next status and the task
\* status update is refused or matches no row, the reply insert or edit is
\* not persisted either.
C10_NoPartialReplyMutation ==
  [][\A t \in DOMAIN project_tasks :
       (/\ \/ \E m \in Drafts, n \in StatusDrafts : n # "" /\ postUpdate(t, m, n)
           \/ \E u \in updatesByTask[t], m \in Drafts, n \in StatusDrafts :
                n # "" /\ saveUpdate(t, u, m, n)
        /\ "project_tasks" \in writes'
        /\ error' # ErrNone)
       => task_updates' = task_updates]_vars

(* ------------------------------------------------------------------ *)
(* Plans page: specification and claims                               *)
(* ------------------------------------------------------------------ *)
InitPlans == InitTaskPages({}, {"null"})

NextPlans ==
  \/ \E u \in Users : PlansPageMount(u)
  \/ startEditing
  \/ addItem
  \/ removeItem
  \/ handleSaveDailyLog
  \/ handleSubmitForApproval
  \/ \E a \in BOOLEAN : handleApproval(a)

SpecPlans == InitPlans /\ [][NextPlans]_vars

\* C11: whenever handleApproval has recorded a decision on the approval of
\* a daily log, the recorded approver_user_id differs from the approval's
\* requester_user_id.
C11_NoSelfApproval ==
  \A o \in Users : \A d \in Dates :
    approvals[o][d].status \in {"approved", "rejected"}
    => approvals[o][d].approver_user_id # approvals[o][d].requester_user_id

\* the plans page of one session, on the day it opens with
NextPlanSession ==
  \/ \E u \in Users : page = "none" /\ PlansPageMount(u)
  \/ startEditing
  \/ addItem
  \/ removeItem
  \/ handleSaveDailyLog
  \/ handleSubmitForApproval
  \/ \E a \in BOOLEAN : handleApproval(a)

\* the plans page of one session, with its date buttons
NextPlanDays ==
  \/ NextPlanSession
  \/ \E delta \in {-1, 1} : changeDate(delta)
  \/ selectToday
  \/ \E day \in Dates : selectWeekDay(day)

SpecPlanDays == InitPlans /\ [][NextPlanDays]_vars

\* C25: a handleSaveDailyLog call that writes items writes them to a log
\* that was absent, draft or rejected when the call was made.
C25_SaveOnlyToEditableLog ==
  [][(handleSaveDailyLog /\ "daily_items" \in writes')
     => daily_logs[userId][lastCall'.arg].status
          \in {NoLog, "draft", "rejected"}]_vars

\* the user keeps using the buttons the page offers
SpecPlansFair ==
  /\ InitPlans
  /\ [][NextPlanSession]_vars
  /\ SF_vars(startEditing)
  /\ SF_vars(handleSaveDailyLog)
  /\ SF_vars(handleSubmitForApproval)

\* C26: a daily log whose rejection is recorded on the log and on its
\* approval is eventually pending again, with a pending approval.
C26_RejectedIsResubmitted ==
  \A o \in Users :
    (/\ daily_logs[o][Today].status = "rejected"
     /\ approvals[o][Today].status = "rejected")
    ~> (/\ daily_logs[o][Today].status = "pending"
        /\ approvals[o][Today].status = "pending")

(* ------------------------------------------------------------------ *)
(* Sidebar: the role resolver                                         *)
(* ------------------------------------------------------------------ *)
\* select role from org_members where user_id = user.id and is_active:
\* the roles of the rows returned
activeRoles(ms) == {ms[o].role : o \in {x \in DOMAIN ms : ms[x].is_active}}

\* finalRole with manager tested before admin
finalRoleMut(roles) ==
  IF "manager" \in roles THEN "manager"
  ELSE IF "admin" \in roles THEN "admin"
  ELSE "member"

\* const finalRole: roles.includes('admin') ? 'admin' :
\* roles.includes('manager') ? 'manager' : 'member'
finalRole(roles) ==
  IF "admin" \in roles THEN "admin"
  ELSE IF "manager" \in roles THEN "manager"
  ELSE "member"

\* loadUserData of the sidebar, for the session of user u; the query
\* answers with rows or with an error
loadUserData(u) ==
  /\ userId' = u
  /\ \E ok \in BOOLEAN :
       /\ lastCall' = [fn |-> "loadUserData", target |-> u,
                       arg |-> IF ok THEN "ok" ELSE "error"]
       /\ sidebarRole' = IF ok /\ activeRoles(memberships) # {}
                           THEN finalRole(activeRoles(memberships))
                           ELSE "member"
  /\ writes' = {}
  /\ UNCHANGED <<org_members, page, orgId, role, error, memberVars, taskVars,
                 planVars, dueVars, loadVars, memberships>>

\* no page mounted and no task in the store
InitSession ==
  /\ org_members = [u \in Users |-> [role |-> "member", is_active |-> TRUE]]
  /\ userId = NoUser
  /\ page = "none"
  /\ orgId = "none"
  /\ role = initialRole
  /\ members = EmptyList
  /\ isAdmin = FALSE
  /\ busyUserId = NoUser
  /\ inflight = 0
  /\ error = ErrNone
  /\ lastCall = NoCall
  /\ writes = {}
  /\ project_tasks = NoTasks
  /\ task_updates = {}
  /\ replySeq = 0
  /\ tasks = NoTasks
  /\ expandedTaskId = NoTask
  /\ updatesByTask = [t \in TaskIds |-> {}]
  /\ scope = "me"

\* the sidebar before its effect has run, over every set of org_members
\* rows of the signed-in user
InitSidebar ==
  /\ InitSession
  /\ InitPlansIdle
  /\ InitLoadIdle
  /\ InitDueIdle
  /\ memberships \in UNION {[S -> MemberRows] : S \in SUBSET Orgs}
  /\ sidebarRole = initialRole

NextSidebar == \E u \in Users : loadUserData(u)

SpecSidebar == InitSidebar /\ [][NextSidebar]_vars

\* C12: after loadUserData has read the user's active memberships,
\* sidebarRole is admin if any of them has role admin, else manager if any
\* has role manager, else member.
C12_HighestRoleResolved ==
  (lastCall.fn = "loadUserData" /\ lastCall.arg = "ok")
  => LET active == {o \in DOMAIN memberships : memberships[o].is_active} IN
       /\ (\E o \in active : memberships[o].role = "admin")
            => sidebarRole = "admin"
       /\ (/\ \A o \in active : memberships[o].role # "admin"
           /\ \E o \in active : memberships[o].role = "manager")
            => sidebarRole = "manager"
       /\ (\A o \in active : memberships[o].role = "member")
            => sidebarRole = "member"

\* C12 witness: the user is an active manager of one organization and an
\* active admin of another, and the sidebar has resolved admin.
C12_Witness ==
  /\ lastCall.fn = "loadUserData"
  /\ lastCall.arg = "ok"
  /\ \E o1 \in DOMAIN memberships, o2 \in DOMAIN memberships :
       /\ memberships[o1] = [role |-> "manager", is_active |-> TRUE]
       /\ memberships[o2] = [role |-> "admin", is_active |-> TRUE]
  /\ sidebarRole = "admin"

\* C13: when the user has no active membership, the role the sidebar has
\* resolved after loadUserData is not member.
C13_NoMembershipIsNotMember ==
  (/\ lastCall.fn = "loadUserData"
   /\ lastCall.arg = "ok"
   /\ \A o \in DOMAIN memberships : ~memberships[o].is_active)
  => sidebarRole # "member"

(* ------------------------------------------------------------------ *)
(* Due-date classification: issues and projects rows, dashboard       *)
(* ------------------------------------------------------------------ *)
\* the latest clock reading of a behaviour: the first instant of the day
\* after the earliest reading's
MaxNow == 2 * DayLen

\* addDaysUTC(todayUTC, 7)
WeekDays == 7

\* .slice(0, 8)
ListLimit == 8

\* the most rows of a dashboard load
MaxTasks == 9

\* the browser's offset from UTC, in clock units
TzOffsets == {-1, 0, 1}

\* expected_finish_at values: null, or an instant up to the UTC day after
\* the week's end
MaxInstant == MaxNow + (WeekDays + 1) * DayLen

DueTasks == [status : TaskStatus,
             expected_finish_at : {NoInstant} \cup (0 .. MaxInstant)]

\* new Date(y, m, d, 0, 0, 0, 0) of the local date of d, as an instant
startOfLocalDay(d, off) == DayLen * ((d + off) \div DayLen) - off

\* new Date(y, m, d, 23, 59, 59, 999) of the local date of d
endOfLocalDay(d, off) == startOfLocalDay(d, off) + DayLen - 1

\* isDueToday; clock is the value its new Date() returns
isDueToday(task, clock, off) ==
  IF task.status = "done" THEN FALSE
  ELSE IF task.expected_finish_at = NoInstant THEN FALSE
  ELSE /\ task.expected_finish_at >= startOfLocalDay(clock, off)
       /\ task.expected_finish_at <= endOfLocalDay(clock, off)

\* isOverdue without the status test
isOverdueMut(task, clock) ==
  IF task.expected_finish_at = NoInstant THEN FALSE
  ELSE task.expected_finish_at < clock

\* isOverdue; clock is the value its new Date() returns
isOverdue(task, clock) ==
  IF task.status = "done" THEN FALSE
  ELSE IF task.expected_finish_at = NoInstant THEN FALSE
  ELSE task.expected_finish_at < clock

\* formatISODate's em dash
NoDateKey == NoInstant

\* formatISODate: the first ten characters of a UTC timestamp, its date
formatISODate(iso) == IF iso = NoInstant THEN NoDateKey ELSE iso \div DayLen

\* startOfTodayUTC, reading the clock at d
startOfTodayUTC(d) == DayLen * (d \div DayLen)

addDaysUTC(date, days) == date + days * DayLen

toUTCDateKey(date) == date \div DayLen

todayKey == toUTCDateKey(todayUTC)

weekEndKey == toUTCDateKey(addDaysUTC(todayUTC, WeekDays))

\* the filters of kpi and of actionLists
inOverdue(t) ==
  /\ t.status # "done"
  /\ formatISODate(t.expected_finish_at) # NoDateKey
  /\ formatISODate(t.expected_finish_at) < todayKey

inDueToday(t) ==
  /\ t.status # "done"
  /\ formatISODate(t.expected_finish_at) = todayKey

inDueThisWeek(t) ==
  /\ t.status # "done"
  /\ formatISODate(t.expected_finish_at) # NoDateKey
  /\ formatISODate(t.expected_finish_at) > todayKey
  /\ formatISODate(t.expected_finish_at) <= weekEndKey

isOpen(t) == t.status # "done"

isCompleted(t) == t.status = "done"

\* the kpi memo over the tasks state
kpiOf(list) ==
  [open |-> Len(SelectSeq(list, isOpen)),
   completed |-> Len(SelectSeq(list, isCompleted)),
   overdue |-> Len(SelectSeq(list, inOverdue)),
   dueToday |-> Len(SelectSeq(list, inDueToday)),
   dueThisWeek |-> Len(SelectSeq(list, inDueThisWeek))]

\* sortByEarliestEF: negative, zero or positive
sortByEarliestEF(a, b) ==
  LET ea == formatISODate(a.expected_finish_at)
      eb == formatISODate(b.expected_finish_at)
  IN IF ea = NoDateKey /\ eb = NoDateKey THEN 0
     ELSE IF ea = NoDateKey THEN 1
     ELSE IF eb = NoDateKey THEN -1
     ELSE ea - eb

\* Array.prototype.sort with sortByEarliestEF: stable, so rows that compare
\* equal keep the order of the load
RECURSIVE sort(_)
sort(list) ==
  IF list = << >> THEN << >>
  ELSE LET n == Len(list)
           s == sort(SubSeq(list, 1, n - 1))
           k == Cardinality({i \in DOMAIN s :
                               sortByEarliestEF(s[i], list[n]) <= 0})
       IN SubSeq(s, 1, k) \o <<list[n]>> \o SubSeq(s, k + 1, Len(s))

\* Array.prototype.slice(0, n)
slice(list, n) == SubSeq(list, 1, IF Len(list) < n THEN Len(list) ELSE n)

\* the actionLists memo over the tasks state
actionListsOf(list) ==
  [overdue |-> slice(sort(SelectSeq(list, inOverdue)), ListLimit),
   dueToday |-> slice(sort(SelectSeq(list, inDueToday)), ListLimit),
   dueThisWeek |-> slice(sort(SelectSeq(list, inDueThisWeek)), ListLimit)]

nonDueVars == <<org_members, userId, page, orgId, role, error, lastCall,
                writes, memberVars, taskVars, planVars, sidebarVars, loadVars>>

\* the clock advances
Tick ==
  /\ now < MaxNow
  /\ now' = now + 1
  /\ UNCHANGED <<nonDueVars, tzOffset, taskList, todayUTC, row, kpi,
                 actionLists>>

\* a task row of the issues or projects page renders:
\* const dueToday = isDueToday(t)
rowIsDueToday(i) ==
  /\ row.pc \in {"idle", "rendered"}
  /\ i \in DOMAIN taskList
  /\ row' = [pc |-> "isDueToday", task |-> i,
             dueToday |-> isDueToday(taskList[i], now, tzOffset),
             overdue |-> FALSE,
             nowDueToday |-> now, nowOverdue |-> NoInstant]
  /\ UNCHANGED <<nonDueVars, now, tzOffset, taskList, todayUTC, kpi,
                 actionLists>>

\* const overdue = isOverdue(t)
rowIsOverdue ==
  /\ row.pc = "isDueToday"
  /\ row' = [row EXCEPT !.pc = "rendered",
                        !.overdue = isOverdue(taskList[row.task], now),
                        !.nowOverdue = now]
  /\ UNCHANGED <<nonDueVars, now, tzOffset, taskList, todayUTC, kpi,
                 actionLists>>

\* the dashboard's first render: useMemo(() => startOfTodayUTC(), []) runs,
\* the tasks state is still []
dashboardFirstRender ==
  /\ todayUTC = NoInstant
  /\ todayUTC' = startOfTodayUTC(now)
  /\ kpi' = NoKpi
  /\ actionLists' = NoLists
  /\ UNCHANGED <<nonDueVars, now, tzOffset, taskList, row>>

\* setTasks(rows) of loadDashboardData re-renders: kpi and actionLists are
\* recomputed with the memoized todayKey and weekEndKey
dashboardRender ==
  /\ todayUTC # NoInstant
  /\ kpi' = kpiOf(taskList)
  /\ actionLists' = actionListsOf(taskList)
  /\ UNCHANGED <<nonDueVars, now, tzOffset, taskList, todayUTC, row>>

\* one task with any status and expected finish, any clock and offset
InitDue ==
  /\ InitSession
  /\ InitPlansIdle
  /\ InitLoadIdle
  /\ InitSidebarIdle
  /\ now \in DayLen .. MaxNow
  /\ tzOffset \in TzOffsets
  /\ taskList \in {<<t>> : t \in DueTasks}
  /\ todayUTC = NoInstant
  /\ row = NoRow
  /\ kpi = NoKpi
  /\ actionLists = NoLists

NextDue ==
  \/ Tick
  \/ \E i \in 1 .. MaxTasks : rowIsDueToday(i)
  \/ rowIsOverdue
  \/ dashboardFirstRender
  \/ dashboardRender

SpecDue == InitDue /\ [][NextDue]_vars

\* kpi and actionLists are those of the loaded tasks
dashboardRendered ==
  /\ todayUTC # NoInstant
  /\ kpi.open + kpi.completed = Len(taskList)

\* the memoized day is the clock's UTC day
memoFresh == todayUTC = startOfTodayUTC(now)

\* the task of the rendered row
rowTask == taskList[row.task]

\* the only task of the dashboard's load
theTask == taskList[1]

\* C14: a task with status done is never overdue and never due today on a
\* rendered row, and the dashboard counts and lists no done task as overdue,
\* due today or due this week.
C14_DoneNeverDue ==
  /\ (row.pc \in {"isDueToday", "rendered"} /\ rowTask.status = "done")
       => ~row.dueToday /\ ~row.overdue
  /\ dashboardRendered
       => /\ kpi.overdue + kpi.dueToday + kpi.dueThisWeek <= kpi.open
          /\ \A l \in {actionLists.overdue, actionLists.dueToday,
                       actionLists.dueThisWeek} :
               \A i \in DOMAIN l : l[i].status # "done"

\* C14 witness: a done task whose expected finish is before the clock has
\* been rendered as a row and loaded by the dashboard.
C14_Witness ==
  /\ row.pc = "rendered"
  /\ rowTask.status = "done"
  /\ rowTask.expected_finish_at # NoInstant
  /\ rowTask.expected_finish_at < row.nowOverdue
  /\ dashboardRendered
  /\ kpi.completed = 1
  /\ formatISODate(theTask.expected_finish_at) < todayKey

\* C15: on a rendered row whose two predicates read the same instant,
\* isOverdue and isDueToday are not both true.
C15_NotBothOverdueAndDueToday ==
  (row.pc = "rendered" /\ row.nowDueToday = row.nowOverdue)
  => ~(row.dueToday /\ row.overdue)

\* C16: a task that is not done and whose expected finish equals the clock
\* at its render is shown due today and not overdue on a row, and is counted
\* due today and not overdue by the dashboard.
C16_DueExactlyNow ==
  /\ (/\ row.pc = "rendered"
      /\ rowTask.status # "done"
      /\ rowTask.expected_finish_at = row.nowDueToday)
       => row.dueToday /\ ~row.overdue
  /\ (/\ dashboardRendered
      /\ theTask.status # "done"
      /\ theTask.expected_finish_at = now)
       => kpi.dueToday = 1 /\ kpi.overdue = 0

\* C17: with the dashboard's day that of the clock, a task that is not done
\* is counted due today when its expected finish is the last instant of the
\* user's local day, and due this week and not due today when it is the
\* instant after, at every offset from UTC.
C17_LocalDayBoundary ==
  (dashboardRendered /\ memoFresh /\ theTask.status # "done")
  => /\ theTask.expected_finish_at = endOfLocalDay(now, tzOffset)
          => kpi.dueToday = 1
     /\ theTask.expected_finish_at = endOfLocalDay(now, tzOffset) + 1
          => kpi.dueThisWeek = 1 /\ kpi.dueToday = 0

\* C18: with the dashboard's day that of the clock and the user's day the
\* UTC day, a task counted due this week has its expected finish after the
\* end of today and no later than the clock plus seven days.
C18_DueThisWeekWithinSevenDays ==
  (dashboardRendered /\ memoFresh /\ tzOffset = 0 /\ kpi.dueThisWeek = 1)
  => /\ theTask.expected_finish_at > endOfLocalDay(now, tzOffset)
     /\ theTask.expected_finish_at <= now + WeekDays * DayLen

\* C20: the two predicates of one row render compare against the same
\* instant.
C20_OneInstantPerRender ==
  row.pc = "rendered" => row.nowDueToday = row.nowOverdue

\* rows of a dashboard load that fall on the day before the earliest clock
ListInstants == {DayLen - 2, DayLen - 1}

ListTasks == [status : {"todo"}, expected_finish_at : ListInstants]

\* up to MaxTasks rows, in the order of the load (created_at descending)
InitDueLists ==
  /\ InitSession
  /\ InitPlansIdle
  /\ InitLoadIdle
  /\ InitSidebarIdle
  /\ now \in DayLen .. MaxNow
  /\ tzOffset = 0
  /\ taskList \in UNION {[1 .. n -> ListTasks] : n \in 0 .. MaxTasks}
  /\ todayUTC = NoInstant
  /\ row = NoRow
  /\ kpi = NoKpi
  /\ actionLists = NoLists

NextDueLists ==
  \/ Tick
  \/ dashboardFirstRender
  \/ dashboardRender

SpecDueLists == InitDueLists /\ [][NextDueLists]_vars

\* C19: every list of the dashboard is in ascending order of the expected
\* finish instant, and no task of its bucket left out of it is due before a
\* task it shows.
C19_ListsSortedByInstant ==
  dashboardRendered
  => /\ \A l \in {actionLists.overdue, actionLists.dueToday,
                  actionLists.dueThisWeek} :
          \A i \in DOMAIN l : \A j \in DOMAIN l :
            i < j => l[i].expected_finish_at <= l[j].expected_finish_at
     /\ \A i \in DOMAIN taskList :
          (inOverdue(taskList[i]) /\ Len(actionLists.overdue) = ListLimit)
          => \E j \in DOMAIN actionLists.overdue :
               actionLists.overdue[j].expected_finish_at
                 <= taskList[i].expected_finish_at

\* C28: when the dashboard recomputes its buckets after a refresh on a UTC day
\* later than the one it was mounted on, a task that is not done and is due
\* on the mount day is counted overdue and not due today.
C28_RefreshUsesTheDayOfRefresh ==
  [][(/\ dashboardRender
      /\ theTask.status # "done"
      /\ formatISODate(theTask.expected_finish_at) = todayKey
      /\ toUTCDateKey(startOfTodayUTC(now)) > todayKey)
     => (kpi'.overdue = 1 /\ kpi'.dueToday = 0)]_vars

\* C29: with the dashboard's day that of the clock, a task that is not done
\* is counted overdue by the dashboard exactly when a row rendered at the
\* same instant has isOverdue true, and counted due today exactly when the
\* row has isDueToday true.
C29_DashboardAgreesWithRows ==
  (/\ dashboardRendered
   /\ memoFresh
   /\ row.pc = "rendered"
   /\ row.nowDueToday = now
   /\ row.nowOverdue = now
   /\ theTask.status # "done")
  => /\ (kpi.overdue = 1) <=> row.overdue
     /\ (kpi.dueToday = 1) <=> row.dueToday

\* C21: when the page's role is member, a call of supervisorSetAssignee,
\* supervisorSetStatus or supervisorSetExpectedFinishAt on the issues page
\* leaves an error set.
C21_GuardViolationSetsError ==
  [][\A t \in TaskIds :
       (/\ ~isSupervisor
        /\ \/ \E a \in Users \cup {NoUser} : supervisorSetAssignee(t, a)
           \/ \E n \in TaskStatus : supervisorSetStatus(t, n)
           \/ \E i \in Instants : supervisorSetExpectedFinishAt(t, i))
       => error' # ErrNone]_vars

\* C22: when a supervisor's status, assignee or expected-finish update of a
\* task, on the issues page or the projects page, asks for another value
\* than the task has and the task does not get it, an error is set.
C22_UpdateWithoutEffectIsFailure ==
  [][\A t \in DOMAIN project_tasks :
       /\ \A n \in TaskStatus :
            (/\ supervisorSetStatus(t, n) \/ supervisorSetTaskStatus(t, n)
             /\ isSupervisor
             /\ project_tasks'[t].status # n)
            => error' # ErrNone
       /\ \A a \in Users \cup {NoUser} :
            (/\ supervisorSetAssignee(t, a) \/ supervisorUpdateAssignee(t, a)
             /\ isSupervisor
             /\ project_tasks'[t].assignee_user_id # a)
            => error' # ErrNone
       /\ \A i \in Instants :
            (/\ \/ supervisorSetExpectedFinishAt(t, i)
                \/ supervisorUpdateExpectedFinishAt(t, i)
             /\ isSupervisor
             /\ project_tasks'[t].expected_finish_at # i)
            => error' # ErrNone]_vars

(* ------------------------------------------------------------------ *)
(* Issues page: the init effect and its cleanup                       *)
(* ------------------------------------------------------------------ *)
\* setError(e?.message ?? '初始化失敗')
ErrInitFailed == "init failed"

\* useEffect(() => { let cancelled = false; ... init() ... }, []): the effect
\* starts init for the session of user u; init clears the error before its
\* first request
IssuesInitStart(u) ==
  /\ initUser = NoUser
  /\ initUser' = u
  /\ cancelled' = FALSE
  /\ page' = "issues"
  /\ error' = ErrNone
  /\ lastCall' = [fn |-> "init", target |-> u, arg |-> "start"]
  /\ writes' = {}
  /\ UNCHANGED <<org_members, userId, orgId, role, memberVars, taskVars, planVars,
                 dueVars, sidebarVars, projectCache, projectMap, membersOf,
                 loadsInFlight>>

\* return () => { cancelled = true }
IssuesInitCleanup ==
  /\ initUser # NoUser
  /\ ~cancelled
  /\ cancelled' = TRUE
  /\ lastCall' = [fn |-> "cleanup", target |-> initUser, arg |-> "none"]
  /\ writes' = {}
  /\ UNCHANGED <<org_members, userId, page, orgId, role, error, memberVars,
                 taskVars, planVars, dueVars, sidebarVars, projectCache,
                 projectMap, initUser, membersOf, loadsInFlight>>

\* the responses of init's requests arrive (r: the outcome of the task
\* query): setUserId, setOrgId and setRole are behind "if (!cancelled)",
\* setError and loadTasks' setTasks are not
IssuesInitResponse(r) ==
  /\ initUser # NoUser
  /\ initUser' = NoUser
  /\ lastCall' = [fn |-> "init", target |-> initUser, arg |-> r]
  /\ writes' = {}
  /\ userId' = IF cancelled THEN userId ELSE initUser
  /\ IF ~org_members[initUser].is_active
       THEN /\ error' = ErrNoMembership
            /\ UNCHANGED <<orgId, role, tasks>>
       ELSE /\ orgId' = IF cancelled THEN orgId ELSE "org"
            /\ role' = IF cancelled THEN role ELSE org_members[initUser].role
            /\ IF r = "ok"
                 THEN /\ tasks' = loadTasks(project_tasks,
                                            org_members[initUser].role, initUser)
                      /\ UNCHANGED error
                 ELSE /\ error' = ErrInitFailed
                      /\ UNCHANGED tasks
  /\ UNCHANGED <<org_members, page, memberVars, project_tasks, task_updates,
                 replySeq, expandedTaskId, updatesByTask, scope, planVars,
                 dueVars, sidebarVars, projectCache, projectMap, cancelled,
                 membersOf, loadsInFlight>>

\* the init of the issues page as an effect that may be cleaned up before
\* its responses arrive, over a store other sessions write
NextIssuesInit ==
  \/ \E u \in Users : IssuesInitStart(u)
  \/ IssuesInitCleanup
  \/ \E r \in {"ok", "error"} : IssuesInitResponse(r)
  \/ \E t \in TaskIds, a \in orgUsers \cup {NoUser} : OtherSessionSetAssignee(t, a)

SpecIssuesInit == InitTaskViews /\ [][NextIssuesInit]_vars

\* C24: once the init effect of a view has been cleaned up, no response of a
\* request that init started writes the view's state: for the issues page,
\* a response arriving after the cleanup leaves tasks and error as they are.
C24_NoWriteAfterCleanup ==
  [][(cancelled /\ \E r \in {"ok", "error"} : IssuesInitResponse(r))
       => (tasks' = tasks /\ error' = error)]_vars

(* ------------------------------------------------------------------ *)
(* Supplementary display data: project names and member profiles      *)
(* ------------------------------------------------------------------ *)
\* the outcomes of a supplementary lookup: rows, a permission (RLS) error,
\* any other error
LookupOutcomes == {"ok", "denied", "error"}

\* setError('專案名稱讀取失敗：projects 的 SELECT 權限/RLS 未放行...')
ErrProjectPermission == "project names: select not permitted"

\* setError(`專案名稱讀取失敗：${pErr.message}`)
ErrProjectRead == "project names: read failed"

\* setError('無法讀取專案名稱，請確認專案資料表權限。')
ErrProjectNames == "cannot read project names"

\* projectLabel / getProjectName: the name of the fetched row, or the
\* shortened id when the entry is undefined or null
projectLabel(entry) == IF entry = "loaded" THEN "name" ELSE "shortId"

\* preloadProjectsForTasks(_orgId, list) called with an empty cache: the
\* entry it leaves for the list's project
preloadProjectsForTasks(list, r) ==
  IF list = NoTasks THEN NoProject
  ELSE IF r = "ok" THEN "loaded" ELSE "null"

\* the error preloadProjectsForTasks sets: every failed lookup sets one
preloadProjectsError(list, r) ==
  IF list = NoTasks \/ r = "ok" THEN ErrNone
  ELSE IF r = "denied" THEN ErrProjectPermission ELSE ErrProjectRead

\* preloadProjectNames(orgId, taskList) called with an empty map
preloadProjectNames(list, r) ==
  IF list = NoTasks THEN NoProject
  ELSE IF r = "ok" THEN "loaded" ELSE "null"

\* the error preloadProjectNames sets: only a permission error sets one
preloadNamesError(list, r) ==
  IF list # NoTasks /\ r = "denied" THEN ErrProjectNames ELSE ErrNone

\* init of the issues page with the project lookup of loadTasks answering r
IssuesLoad(u, r) ==
  /\ userId' = u
  /\ page' = "issues"
  /\ expandedTaskId' = NoTask
  /\ updatesByTask' = [t \in TaskIds |-> {}]
  /\ scope' = "me"
  /\ lastCall' = [fn |-> "preloadProjectsForTasks", target |-> u, arg |-> r]
  /\ writes' = {}
  /\ IF ~org_members[u].is_active
       THEN /\ orgId' = "none"
            /\ role' = "member"
            /\ tasks' = NoTasks
            /\ projectCache' = NoProject
            /\ error' = ErrNoMembership
       ELSE /\ orgId' = "org"
            /\ role' = org_members[u].role
            /\ tasks' = loadTasks(project_tasks, org_members[u].role, u)
            /\ projectCache' = preloadProjectsForTasks(tasks', r)
            /\ error' = preloadProjectsError(tasks', r)
  /\ UNCHANGED <<org_members, memberVars, project_tasks, task_updates, replySeq,
                 planVars, dueVars, sidebarVars, projectMap, initUser, cancelled,
                 membersOf, loadsInFlight>>

\* initialize of the dashboard with the project lookup of loadDashboardData
\* answering r
DashboardLoad(u, r) ==
  /\ userId' = u
  /\ page' = "dashboard"
  /\ expandedTaskId' = NoTask
  /\ updatesByTask' = [t \in TaskIds |-> {}]
  /\ scope' = "me"
  /\ lastCall' = [fn |-> "preloadProjectNames", target |-> u, arg |-> r]
  /\ writes' = {}
  /\ IF ~org_members[u].is_active
       THEN /\ orgId' = "none"
            /\ role' = initialRole
            /\ tasks' = NoTasks
            /\ projectMap' = NoProject
            /\ error' = ErrNoMembership
       ELSE /\ orgId' = "org"
            /\ role' = org_members[u].role
            /\ tasks' = loadDashboardData(project_tasks, isSupervisorOf(initialRole),
                                          org_members[u].role, u)
            /\ projectMap' = preloadProjectNames(tasks', r)
            /\ error' = preloadNamesError(tasks', r)
  /\ UNCHANGED <<org_members, memberVars, project_tasks, task_updates, replySeq,
                 planVars, dueVars, sidebarVars, projectCache, initUser, cancelled,
                 membersOf, loadsInFlight>>

\* the mount of the members page with the profiles lookup of loadMembers
\* answering r: a failed lookup leaves pMap empty and sets no error
MembersLoad(u, r) ==
  /\ userId' = u
  /\ page' = "members"
  /\ busyUserId' = NoUser
  /\ inflight' = 0
  /\ isAdmin' = FALSE
  /\ lastCall' = [fn |-> "loadMembers", target |-> u, arg |-> r]
  /\ writes' = {}
  /\ IF ~org_members[u].is_active
       THEN /\ orgId' = "none"
            /\ role' = "member"
            /\ members' = EmptyList
            /\ error' = ErrNoMembership
       ELSE /\ orgId' = "org"
            /\ role' = org_members[u].role
            /\ error' = ErrNone
            /\ members' = IF org_members[u].role \in {"admin", "manager"}
                            THEN loadMembers ELSE EmptyList
  /\ UNCHANGED <<org_members, taskVars, otherPageVars>>

\* the three pages loading their list together with its display data
NextSupplementary ==
  \/ \E u \in Users, r \in LookupOutcomes : IssuesLoad(u, r)
  \/ \E u \in Users, r \in LookupOutcomes : DashboardLoad(u, r)
  \/ \E u \in Users, r \in LookupOutcomes : MembersLoad(u, r)

SpecSupplementary == InitTaskViews /\ [][NextSupplementary]_vars

\* C23: when the lookup of supplementary display data fails (the profiles
\* of the member list, the projects of the task lists), the page shows the
\* fallback label, raises no error to the user and still holds its primary
\* list.
C23_LookupFailureIsSilent ==
  (/\ lastCall.fn \in {"preloadProjectsForTasks", "preloadProjectNames",
                       "loadMembers"}
   /\ lastCall.arg \in {"denied", "error"}
   /\ orgId # "none")
  => /\ error = ErrNone
     /\ page = "issues" =>
          /\ projectLabel(projectCache) = "shortId"
          /\ tasks = loadTasks(project_tasks, role, userId)
     /\ page = "dashboard" => projectLabel(projectMap) = "shortId"
     /\ page = "members" /\ isSupervisor => members = loadMembers

(* ------------------------------------------------------------------ *)
(* Members page: several organizations                                *)
(* ------------------------------------------------------------------ *)
\* .eq("user_id", u.id).eq("is_active", true): the organizations of the
\* memberships list in state
activeOrgs(ms) == {o \in DOMAIN ms : ms[o].is_active}

\* loadMemberships and the mount effect, for the session of user u: the
\* query has no order, so list[0] is any of the active rows (first); a
\* supervisor's mount then awaits loadMembers(picked.org_id)
MembersOrgMount(u, first) ==
  /\ page # "members"
  /\ first \in activeOrgs(memberships)
  /\ userId' = u
  /\ page' = "members"
  /\ orgId' = first
  /\ role' = memberships[first].role
  /\ error' = ErrNone
  /\ membersOf' = "none"
  /\ loadsInFlight' = IF isSupervisorOf(memberships[first].role)
                        THEN {first} ELSE {}
  /\ lastCall' = [fn |-> "loadMemberships", target |-> u, arg |-> first]
  /\ writes' = {}
  /\ UNCHANGED <<org_members, memberVars, taskVars, planVars, dueVars,
                 sidebarVars, projectCache, projectMap, initUser, cancelled>>

\* onSwitchOrg(nextOrgId): the select of the page, never disabled
onSwitchOrg(nextOrgId) ==
  /\ page = "members"
  /\ nextOrgId \in activeOrgs(memberships)
  /\ orgId' = nextOrgId
  /\ role' = memberships[nextOrgId].role
  /\ error' = ErrNone
  /\ IF ~isSupervisorOf(memberships[nextOrgId].role)
       THEN /\ membersOf' = "none"
            /\ UNCHANGED loadsInFlight
       ELSE /\ loadsInFlight' = loadsInFlight \cup {nextOrgId}
            /\ UNCHANGED membersOf
  /\ lastCall' = [fn |-> "onSwitchOrg", target |-> NoUser, arg |-> nextOrgId]
  /\ writes' = {}
  /\ UNCHANGED <<org_members, userId, page, memberVars, taskVars, planVars,
                 dueVars, sidebarVars, projectCache, projectMap, initUser,
                 cancelled>>

\* refresh(): the "reload" button, disabled while loading or without orgId
refreshOrg ==
  /\ page = "members"
  /\ orgId # "none"
  /\ loadsInFlight = {}
  /\ error' = ErrNone
  /\ loadsInFlight' = {orgId}
  /\ lastCall' = [fn |-> "refresh", target |-> NoUser, arg |-> orgId]
  /\ writes' = {}
  /\ UNCHANGED <<org_members, userId, page, orgId, role, memberVars, taskVars,
                 planVars, dueVars, sidebarVars, projectCache, projectMap,
                 initUser, cancelled, membersOf>>

\* the rows of loadMembers(targetOrgId) arrive: setMembers(vm)
loadMembersDone(targetOrgId) ==
  /\ targetOrgId \in loadsInFlight
  /\ loadsInFlight' = loadsInFlight \ {targetOrgId}
  /\ membersOf' = targetOrgId
  /\ lastCall' = [fn |-> "loadMembers", target |-> NoUser, arg |-> targetOrgId]
  /\ writes' = {}
  /\ UNCHANGED <<org_members, userId, page, orgId, role, error, memberVars,
                 taskVars, planVars, dueVars, sidebarVars, projectCache,
                 projectMap, initUser, cancelled>>

\* the members page of a user with rows in several organizations
NextMemberOrgs ==
  \/ \E u \in Users, o \in Orgs : MembersOrgMount(u, o)
  \/ \E o \in Orgs : onSwitchOrg(o)
  \/ refreshOrg
  \/ \E o \in Orgs : loadMembersDone(o)

SpecMemberOrgs == InitSidebar /\ [][NextMemberOrgs]_vars

\* C27: on the members page, once every load in flight has completed after
\* any sequence of onSwitchOrg and refresh, the member list in state is the
\* list of the current orgId (or the empty list).
C27_ListBelongsToCurrentOrg ==
  (page = "members" /\ orgId # "none" /\ loadsInFlight = {})
    => membersOf \in {orgId, "none"}

(* ------------------------------------------------------------------ *)
(* The role of a user with rows in several organizations              *)
(* ------------------------------------------------------------------ *)
\* pickMembership(mems): the supervisor rows if there is one, else every
\* row; the newest of them is picked (created_at is not in the model: any
\* of them may be the newest)
pickMembership(ms) ==
  LET supervisors == {o \in activeOrgs(ms) : isSupervisorOf(ms[o].role)} IN
    IF supervisors # {} THEN supervisors ELSE activeOrgs(ms)

\* init of the projects page, for the session of user u: the membership
\* query is .eq('is_active', true).limit(1).maybeSingle() with no order, so
\* the row is any of the active rows (mem)
ProjectsInit(u, mem) ==
  /\ mem \in activeOrgs(memberships)
  /\ userId' = u
  /\ page' = "projects"
  /\ orgId' = mem
  /\ role' = memberships[mem].role
  /\ error' = ErrNone
  /\ lastCall' = [fn |-> "init", target |-> u, arg |-> "projects"]
  /\ writes' = {}
  /\ UNCHANGED <<org_members, memberVars, taskVars, otherPageVars>>

\* init of the history page, for the session of user u
HistoryInit(u, mem) ==
  /\ mem \in pickMembership(memberships)
  /\ userId' = u
  /\ page' = "history"
  /\ orgId' = mem
  /\ role' = memberships[mem].role
  /\ scope' = IF isSupervisorOf(memberships[mem].role) THEN "all" ELSE "me"
  /\ error' = ErrNone
  /\ lastCall' = [fn |-> "init", target |-> u, arg |-> "history"]
  /\ writes' = {}
  /\ UNCHANGED <<org_members, memberVars, project_tasks, task_updates, replySeq,
                 tasks, expandedTaskId, updatesByTask, otherPageVars>>

\* the sidebar and the pages it links to, each reading the role from the
\* rows of the signed-in user
NextRoleViews ==
  \/ \E u \in Users : loadUserData(u)
  \/ \E u \in Users, o \in Orgs : ProjectsInit(u, o)
  \/ \E u \in Users, o \in Orgs : HistoryInit(u, o)
  \/ \E u \in Users, o \in Orgs : MembersOrgMount(u, o)

SpecRoleViews == InitSidebar /\ [][NextRoleViews]_vars

\* C30: for a user with active memberships in more than one organization,
\* the role the sidebar resolved equals the role the mounted page uses to
\* gate access.
C30_SidebarRoleIsPageRole ==
  (/\ lastCall.fn = "loadUserData"
   /\ lastCall.arg = "ok"
   /\ Cardinality(activeOrgs(memberships)) > 1
   /\ page \in {"projects", "history", "members"}
   /\ orgId # "none")
  => sidebarRole = role

==============================================================================
